---- MODULE Spec2Model ----
(***************************************************************************)
(* Run orchestrator of the RMS importer (src/unnamed/part_007) against a   *)
(* store holding the tables of the schema (src/unnamed/part_002).          *)
(* Every await of run() is a suspension point: a "Call" action issues the  *)
(* store request, a "Return" action lets the store apply or reject it and  *)
(* runs the continuation up to the next await.                             *)
(* The store answers a request with ok, and then it has applied it, or    *)
(* with an error text, and then it has applied nothing of it.              *)
(***************************************************************************)
EXTENDS Integers, Sequences, FiniteSets, TLC

(* ------------------------------ bounds -------------------------------- *)
\* most rows one workbook yields, summed over its output collections
MaxRows == 3
\* largest configured BATCH_SIZE explored
MaxBatch == 2
\* most invocations that run side by side
NumRuns == 2
\* most data rows of a worksheet
MaxSheetRows == 2
\* most calls of a normalizer on one file
MaxCalls == 2

(* ------------------------- program constants -------------------------- *)
DefaultBatchSize == 500
\* 0.05 as numerator/denominator
DefaultErrorRateThreshold == <<1, 20>>

Runs == 1..NumRuns
NoId == 0
KnownTemplates == {"planning", "booking_lowest", "booking_export", "events"}
Templates == KnownTemplates \cup {"inventory"}
HotelCodes == {"H1", "H2"}
HotelNames == {"", "Grand"}
Labels == {"A", "B"}
\* error texts the store answers a rejected request with
ErrorTexts == {"E1"}
Outcomes == {"ok"} \cup ErrorTexts
\* ERROR_RATE_THRESHOLD values explored, as numerator/denominator
Thresholds == {<<0, 1>>, DefaultErrorRateThreshold, <<1, 2>>}

VARIABLES
  config,          \* per run: CLI options and environment (lines 26-36)
  pc,              \* per run: position in run()
  hotelFk,         \* per run: const hotelFk (line 118)
  runId,           \* per run: const runId (line 119)
  result,          \* per run: what the normalizer returned
  coll,            \* per run: index of the collection batchInsert works on
  off,             \* per run: loop variable i of batchInsert
  stats,           \* per run: ImportStats
  caught,          \* per run: the error the catch block received
  pending,         \* per run: store requests issued and not yet answered
  issued,          \* per run: history of the requests issued, in order
  answers,         \* per run: history of the store's answers, in order
  normalizerCalls, \* per run: number of normalizer invocations
  printed,         \* per run: summaries written by console.log
  thrown,          \* per run: the error run() rejected with
  exitCode,        \* per run: process outcome (-1 while running)
  rowBound,        \* most rows a workbook yields in this exploration
  hotels,          \* table public.hotels
  nextHotelPk,     \* next primary key of public.hotels
  importRuns,      \* table public.import_runs, indexed by id
  outputRows,      \* rows of the output tables
  competitorSet,   \* table public.hotel_competitor_set
  sheet,           \* normalizer call: the worksheet read (kind and header cells)
  hotelRef,        \* normalizer call: parameter hotelFk
  clockYear,       \* normalizer call: DateTime.now().year
  rowIndex,        \* normalizer call: data rows scanned so far
  lastRow,         \* normalizer call: values of the row scanned last
  lastOut,         \* normalizer call: rows pushed while scanning that row
  emitted,         \* normalizer call: rows pushed so far, per collection
  rowsSkipped,     \* normalizer call: let rowsSkipped
  rowsCoerced,     \* normalizer call: let rowsCoerced
  currentRoomType, \* normalizer call: let currentRoomType (planning)
  competitors,     \* normalizer call: const competitors (booking comparison)
  callsMade,       \* normalizer calls made on the same file so far
  dateArg,         \* date call: the value passed to normalizeDate
  dateZone,        \* date call: UTC offset of the zone the process runs in
  dateResult,      \* date call: what normalizeDate returned, once it has
  splitResult,     \* date call: what splitDateTime returned, once it has
  numArg,          \* number call: the value passed to parseNumeric
  numResult        \* number call: what parseNumeric returned, once it has

vars == <<config, pc, hotelFk, runId, result, coll, off, stats, caught, pending,
          issued, answers, normalizerCalls, printed, thrown, exitCode,
          rowBound, hotels, nextHotelPk, importRuns, outputRows, competitorSet,
          sheet, hotelRef, clockYear, rowIndex, lastRow, lastOut, emitted,
          rowsSkipped, rowsCoerced, currentRoomType, competitors, callsMade,
          dateArg, dateZone, dateResult, splitResult, numArg, numResult>>

\* the state of one normalizer call and of one normalizeDate call
normVars == <<sheet, hotelRef, clockYear, rowIndex, lastRow, lastOut, emitted,
              rowsSkipped, rowsCoerced, currentRoomType, competitors, callsMade>>
dateVars == <<dateArg, dateZone, dateResult, splitResult, numArg, numResult>>

\* what no step of run() changes
runVars == <<config, rowBound, normVars, dateVars>>

\* the state of run() and of the store
orchVars == <<config, pc, hotelFk, runId, result, coll, off, stats, caught, pending,
              issued, answers, normalizerCalls, printed, thrown, exitCode,
              rowBound, hotels, nextHotelPk, importRuns, outputRows, competitorSet>>

(* ------------------------------ helpers ------------------------------- *)
Min(a, b) == IF a < b THEN a ELSE b

RECURSIVE SumSeq(_)
SumSeq(s) == IF s = <<>> THEN 0 ELSE Head(s) + SumSeq(Tail(s))

NoError == <<"", "">>
NoPayload == [status |-> "none", finished |-> FALSE, error_message |-> <<>>,
              meta |-> [errors |-> <<>>]]

\* the output tables each template writes, in the order run() inserts them
TablesOf(t) ==
  CASE t = "planning" -> <<"planning_tarifs", "disponibilites">>
    [] t = "booking_lowest" ->
         <<"booking_apercu", "booking_tarifs_market", "booking_tarifs_competitors",
           "booking_vs_market", "booking_vs_competitors">>
    [] t = "booking_export" -> <<"booking_export">>
    [] t = "events" -> <<"events_calendar">>
    [] OTHER -> <<>>

EmptyStats == [rowsInserted |-> 0, rowsSkipped |-> 0, rowsCoerced |-> 0,
               rowErrors |-> 0, errors |-> <<>>]

NoResult == [sizes |-> <<>>, competitors |-> {}, rowsSkipped |-> 0, rowsCoerced |-> 0]

\* counters a normalizer may report
NormStats == {[rowsSkipped |-> 0, rowsCoerced |-> 0], [rowsSkipped |-> 1, rowsCoerced |-> 2]}

\* competitor labels a booking_lowest workbook may yield: none, or some
CompetitorLists == {{}, Labels}

\* what a normalizer may return for template t: one row count per collection
Results(t, bound) ==
  LET k == Len(TablesOf(t))
  IN { [sizes |-> s, competitors |-> c, rowsSkipped |-> n.rowsSkipped,
        rowsCoerced |-> n.rowsCoerced] :
         s \in {v \in [1..k -> 0..bound] : SumSeq(v) <= bound},
         c \in (IF t = "booking_lowest" THEN CompetitorLists ELSE {{}}),
         n \in NormStats }

Request(op, table, lo, hi, payload) ==
  [op |-> op, table |-> table, lo |-> lo, hi |-> hi, payload |-> payload]

\* a request leaves the process: it is in flight until the store answers
Send(r, req) ==
  /\ pending' = [pending EXCEPT ![r] = @ \cup {req}]
  /\ issued' = [issued EXCEPT ![r] = Append(@, req)]

\* the store answers request req of run r with outcome o
Answer(r, req, o) ==
  /\ pending' = [pending EXCEPT ![r] = @ \ {req}]
  /\ answers' = [answers EXCEPT ![r] = Append(@, [req |-> req, outcome |-> o])]

(* ------------------------------- Init --------------------------------- *)
Configs ==
  [template : Templates, hotel_id : HotelCodes, hotel_name : HotelNames,
   batchSize : 1..MaxBatch, threshold : Thresholds]

InitRun ==
  /\ hotelFk = [r \in Runs |-> NoId]
  /\ runId = [r \in Runs |-> NoId]
  /\ result = [r \in Runs |-> NoResult]
  /\ coll = [r \in Runs |-> 0]
  /\ off = [r \in Runs |-> 0]
  /\ stats = [r \in Runs |-> EmptyStats]
  /\ caught = [r \in Runs |-> NoError]
  /\ pending = [r \in Runs |-> {}]
  /\ issued = [r \in Runs |-> <<>>]
  /\ answers = [r \in Runs |-> <<>>]
  /\ normalizerCalls = [r \in Runs |-> 0]
  /\ printed = [r \in Runs |-> <<>>]
  /\ thrown = [r \in Runs |-> NoError]
  /\ exitCode = [r \in Runs |-> -1]
  /\ hotels = {}
  /\ nextHotelPk = 1
  /\ importRuns = <<>>
  /\ outputRows = {}
  /\ competitorSet = {}

\* no normalizer and no date function is being followed
NormIdle ==
  /\ sheet = [kind |-> "none", header |-> <<>>, top |-> <<>>]
  /\ hotelRef = <<>>
  /\ clockYear = 0
  /\ rowIndex = 0
  /\ lastRow = <<>>
  /\ lastOut = <<>>
  /\ emitted = <<>>
  /\ rowsSkipped = 0
  /\ rowsCoerced = 0
  /\ currentRoomType = <<>>
  /\ competitors = {}
  /\ callsMade = 0
DateIdle ==
  /\ dateArg = <<>>
  /\ dateZone = 0
  /\ dateResult = <<>>
  /\ splitResult = <<>>
  /\ numArg = <<>>
  /\ numResult = <<>>

\* one invocation, for one hotel, over every template, batch size and threshold
SingleConfigs == {c \in Configs : c.hotel_id = "H1" /\ c.hotel_name = ""}

Init ==
  /\ InitRun
  /\ NormIdle /\ DateIdle
  /\ pc = [r \in Runs |-> IF r = 1 THEN "start" ELSE "off"]
  /\ rowBound = MaxRows
  /\ \E c \in SingleConfigs : config = [r \in Runs |-> c]

(* ------------------- upsertHotel (lines 44-55, 118) -------------------- *)
UpsertHotelCall(r) ==
  /\ pc[r] = "start"
  /\ Send(r, Request("upsert", "hotels", 0, 0, NoPayload))
  /\ pc' = [pc EXCEPT ![r] = "wait_hotel"]
  /\ UNCHANGED <<hotelFk, runId, result, coll, off, stats, caught, answers,
                 normalizerCalls, printed, thrown, exitCode, hotels, nextHotelPk,
                 importRuns, outputRows, competitorSet, runVars>>

\* hotelName ?? hotelId (line 45); the option is absent when not given
HotelPayload(r) ==
  [hotel_id |-> config[r].hotel_id,
   hotel_name |-> IF config[r].hotel_name = "" THEN config[r].hotel_id
                  ELSE config[r].hotel_name]

\* faulty variant: a plain insert, without the conflict target
HotelsAfterUpsert_AlwaysInsert(p) ==
  hotels \cup {[id |-> nextHotelPk, hotel_id |-> p.hotel_id, hotel_name |-> p.hotel_name]}

\* INSERT ... ON CONFLICT (hotel_id) DO UPDATE: the table after the statement
HotelsAfterUpsert(p) ==
  IF \E h \in hotels : h.hotel_id = p.hotel_id
  THEN {IF h.hotel_id = p.hotel_id THEN [h EXCEPT !.hotel_name = p.hotel_name] ELSE h :
          h \in hotels}
  ELSE hotels \cup {[id |-> nextHotelPk, hotel_id |-> p.hotel_id,
                     hotel_name |-> p.hotel_name]}

\* faulty variant: the error of the upsert is not inspected
UpsertHotelReturn_IgnoreError(r) ==
  /\ pc[r] = "wait_hotel"
  /\ \E req \in pending[r], o \in Outcomes :
       /\ req.op = "upsert" /\ req.table = "hotels"
       /\ Answer(r, req, o)
       /\ hotels' = IF o = "ok" THEN HotelsAfterUpsert(HotelPayload(r)) ELSE hotels
       /\ nextHotelPk' = IF o = "ok" /\ hotels' # hotels /\ Cardinality(hotels') > Cardinality(hotels)
                         THEN nextHotelPk + 1 ELSE nextHotelPk
       /\ hotelFk' = [hotelFk EXCEPT ![r] =
            IF o = "ok" THEN (CHOOSE h \in hotels' : h.hotel_id = config[r].hotel_id).id
            ELSE NoId]
  /\ pc' = [pc EXCEPT ![r] = "create"]
  /\ UNCHANGED <<runId, result, coll, off, stats, caught, issued, thrown, exitCode,
                 normalizerCalls, printed, importRuns, outputRows, competitorSet,
                 runVars>>

UpsertHotelReturn(r) ==
  /\ pc[r] = "wait_hotel"
  /\ \E req \in pending[r], o \in Outcomes :
       /\ req.op = "upsert" /\ req.table = "hotels"
       /\ Answer(r, req, o)
       /\ IF o = "ok"
          THEN /\ hotels' = HotelsAfterUpsert(HotelPayload(r))
               /\ nextHotelPk' = IF \E h \in hotels : h.hotel_id = config[r].hotel_id
                                 THEN nextHotelPk ELSE nextHotelPk + 1
               /\ hotelFk' = [hotelFk EXCEPT ![r] =
                    (CHOOSE h \in hotels' : h.hotel_id = config[r].hotel_id).id]
               /\ pc' = [pc EXCEPT ![r] = "create"]
               /\ UNCHANGED <<thrown, exitCode>>
          ELSE /\ thrown' = [thrown EXCEPT ![r] = <<"Hotel upsert failed", o>>]
               /\ exitCode' = [exitCode EXCEPT ![r] = 1]
               /\ pc' = [pc EXCEPT ![r] = "thrown"]
               /\ UNCHANGED <<hotels, nextHotelPk, hotelFk>>
  /\ UNCHANGED <<runId, result, coll, off, stats, caught, issued,
                 normalizerCalls, printed, importRuns, outputRows, competitorSet,
                 runVars>>

(* --------------- createImportRun (lines 57-74, 119) -------------------- *)
CreateImportRunCall(r) ==
  /\ pc[r] = "create"
  /\ Send(r, Request("insert", "import_runs", 0, 0, NoPayload))
  /\ pc' = [pc EXCEPT ![r] = "wait_create"]
  /\ UNCHANGED <<hotelFk, runId, result, coll, off, stats, caught, answers,
                 normalizerCalls, printed, thrown, exitCode, hotels, nextHotelPk,
                 importRuns, outputRows, competitorSet, runVars>>

NewImportRun(r) ==
  [hotel_fk |-> hotelFk[r], template |-> config[r].template, status |-> "running",
   finished |-> FALSE, error_message |-> <<>>, meta |-> [errors |-> <<>>],
   updates |-> 0]

CreateImportRunReturn(r) ==
  /\ pc[r] = "wait_create"
  /\ \E req \in pending[r], o \in Outcomes :
       /\ req.op = "insert" /\ req.table = "import_runs"
       /\ Answer(r, req, o)
       /\ IF o = "ok"
          THEN /\ importRuns' = Append(importRuns, NewImportRun(r))
               /\ runId' = [runId EXCEPT ![r] = Len(importRuns) + 1]
               /\ pc' = [pc EXCEPT ![r] = "dispatch"]
               /\ UNCHANGED <<thrown, exitCode>>
          ELSE /\ thrown' = [thrown EXCEPT ![r] = <<"import_runs insert failed", o>>]
               /\ exitCode' = [exitCode EXCEPT ![r] = 1]
               /\ pc' = [pc EXCEPT ![r] = "thrown"]
               /\ UNCHANGED <<importRuns, runId>>
  /\ UNCHANGED <<hotelFk, result, coll, off, stats, caught, issued,
                 normalizerCalls, printed, hotels, nextHotelPk, outputRows,
                 competitorSet, runVars>>

(* ---------------- try: switch (template) (lines 121-159) --------------- *)
\* faulty variant: the switch has no default branch and falls through to the closing code
UnknownTemplate_FallThrough(r) ==
  /\ pc[r] = "dispatch"
  /\ config[r].template \notin KnownTemplates
  /\ pc' = [pc EXCEPT ![r] = "aggregate"]
  /\ UNCHANGED <<hotelFk, runId, result, coll, off, stats, caught, pending, issued,
                 answers, normalizerCalls, printed, thrown, exitCode, hotels,
                 nextHotelPk, importRuns, outputRows, competitorSet, runVars>>

UnknownTemplate(r) ==
  /\ pc[r] = "dispatch"
  /\ config[r].template \notin KnownTemplates
  /\ caught' = [caught EXCEPT ![r] = <<"Unknown template", config[r].template>>]
  /\ pc' = [pc EXCEPT ![r] = "catch"]
  /\ UNCHANGED <<hotelFk, runId, result, coll, off, stats, pending, issued, answers,
                 normalizerCalls, printed, thrown, exitCode, hotels,
                 nextHotelPk, importRuns, outputRows, competitorSet, runVars>>

NormalizerCall(r) ==
  /\ pc[r] = "dispatch"
  /\ config[r].template \in KnownTemplates
  /\ normalizerCalls' = [normalizerCalls EXCEPT ![r] = @ + 1]
  /\ pc' = [pc EXCEPT ![r] = "wait_normalizer"]
  /\ UNCHANGED <<hotelFk, runId, result, coll, off, stats, caught, pending, issued,
                 answers, printed, thrown, exitCode, hotels, nextHotelPk,
                 importRuns, outputRows, competitorSet, runVars>>

\* the normalizer resolves with its row collections and counters
NormalizerReturn(r) ==
  /\ pc[r] = "wait_normalizer"
  /\ \E res \in Results(config[r].template, rowBound) :
       result' = [result EXCEPT ![r] = res]
  /\ coll' = [coll EXCEPT ![r] = 1]
  /\ off' = [off EXCEPT ![r] = 0]
  /\ pc' = [pc EXCEPT ![r] = "batch"]
  /\ UNCHANGED <<hotelFk, runId, stats, caught, pending, issued, answers,
                 normalizerCalls, printed, thrown, exitCode, hotels, nextHotelPk,
                 importRuns, outputRows, competitorSet, runVars>>

\* the normalizer rejects (unreadable workbook)
NormalizerThrow(r) ==
  /\ pc[r] = "wait_normalizer"
  /\ caught' = [caught EXCEPT ![r] = <<"normalizer", "unreadable workbook">>]
  /\ pc' = [pc EXCEPT ![r] = "catch"]
  /\ UNCHANGED <<hotelFk, runId, result, coll, off, stats, pending, issued, answers,
                 normalizerCalls, printed, thrown, exitCode, hotels,
                 nextHotelPk, importRuns, outputRows, competitorSet, runVars>>

(* --------------------- batchInsert (lines 83-94) ----------------------- *)
CurrentTable(r) == TablesOf(config[r].template)[coll[r]]
CurrentSize(r) == result[r].sizes[coll[r]]

\* rows.slice(i, i + batchSize): the rows with index i (inclusive) to the end index
SliceEnd(i, b, n) == Min(i + b, n)

\* the for loop's condition, i < rows.length
LoopCondition(i, n) == i < n

\* faulty variant: the loop advances by one row instead of one batch
LoopIncrement_ByOne(i, b) == i + 1

\* the for loop's increment, i += batchSize
LoopIncrement(i, b) == i + b

BatchInsertCall(r) ==
  /\ pc[r] = "batch"
  /\ LoopCondition(off[r], CurrentSize(r))
  /\ Send(r, Request("insert", CurrentTable(r), off[r],
                     SliceEnd(off[r], config[r].batchSize, CurrentSize(r)), NoPayload))
  /\ pc' = [pc EXCEPT ![r] = "wait_insert"]
  /\ UNCHANGED <<hotelFk, runId, result, coll, off, stats, caught, answers,
                 normalizerCalls, printed, thrown, exitCode, hotels, nextHotelPk,
                 importRuns, outputRows, competitorSet, runVars>>

\* stats after a chunk of n rows of table was answered with o (lines 87-92)
StatsAfterChunk(st, table, n, o) ==
  IF o = "ok"
  THEN [st EXCEPT !.rowsInserted = @ + n]
  ELSE [st EXCEPT !.rowErrors = @ + n, !.errors = Append(@, <<table, o>>)]

\* the rows chunk lo..hi-1 of a collection adds to its table
ChunkRows(r, table, lo, hi) ==
  {[owner |-> r, table |-> table, idx |-> i, hotel_fk |-> hotelFk[r]] : i \in (lo + 1)..hi}

\* faulty variant: a rejected chunk rolls back the rows its table already received
RowsAfterInsert_Rollback(rows, chunk, o) ==
  IF o = "ok" THEN rows \cup chunk
  ELSE {x \in rows : \A c \in chunk : x.table # c.table \/ x.owner # c.owner}

\* outputRows after the store answered a chunk (an insert is one atomic statement)
RowsAfterInsert(rows, chunk, o) == IF o = "ok" THEN rows \cup chunk ELSE rows

\* faulty variant: a rejected chunk ends the loop of its collection (break for continue)
OffsetAfterChunk_Break(i, b, n, o) == IF o = "ok" THEN LoopIncrement(i, b) ELSE n

\* where the loop stands after a chunk was answered: both outcomes move on
OffsetAfterChunk(i, b, n, o) == LoopIncrement(i, b)

BatchInsertReturn(r) ==
  /\ pc[r] = "wait_insert"
  /\ \E req \in pending[r], o \in Outcomes :
       /\ req.op = "insert" /\ req.table # "import_runs"
       /\ Answer(r, req, o)
       /\ outputRows' = RowsAfterInsert(outputRows,
                          ChunkRows(r, req.table, req.lo, req.hi), o)
       /\ stats' = [stats EXCEPT ![r] = StatsAfterChunk(@, req.table, req.hi - req.lo, o)]
       /\ off' = [off EXCEPT ![r] = OffsetAfterChunk(@, config[r].batchSize, CurrentSize(r), o)]
  /\ pc' = [pc EXCEPT ![r] = "batch"]
  /\ UNCHANGED <<hotelFk, runId, result, coll, caught, issued,
                 normalizerCalls, printed, thrown, exitCode, hotels, nextHotelPk,
                 importRuns, competitorSet, runVars>>

\* the loop of one collection ends; run() goes on to the next statement
BatchInsertDone(r) ==
  /\ pc[r] = "batch"
  /\ ~LoopCondition(off[r], CurrentSize(r))
  /\ IF coll[r] < Len(TablesOf(config[r].template))
     THEN /\ coll' = [coll EXCEPT ![r] = @ + 1]
          /\ off' = [off EXCEPT ![r] = 0]
          /\ pc' = pc
     ELSE /\ pc' = [pc EXCEPT ![r] =
                      IF config[r].template = "booking_lowest" THEN "competitors"
                      ELSE "aggregate"]
          /\ UNCHANGED <<coll, off>>
  /\ UNCHANGED <<hotelFk, runId, result, stats, caught, pending, issued, answers,
                 normalizerCalls, printed, thrown, exitCode, hotels,
                 nextHotelPk, importRuns, outputRows, competitorSet, runVars>>

\* batchInsert as a function: the loop over one collection of n rows, the store
\* answering the chunks with the outcomes os in turn; calls counts the inserts
RECURSIVE BatchInsert(_, _, _, _, _, _, _)
BatchInsert(table, i, n, b, os, st, calls) ==
  IF ~LoopCondition(i, n) \/ os = <<>>
  THEN [stats |-> st, calls |-> calls, left |-> os, i |-> i]
  ELSE BatchInsert(table, OffsetAfterChunk(i, b, n, Head(os)), n, b, Tail(os),
                   StatsAfterChunk(st, table, SliceEnd(i, b, n) - i, Head(os)),
                   calls + 1)

(* ------------------ upsertCompetitors (lines 96-108) ------------------- *)
\* if (!competitors.length) return
UpsertCompetitorsEmpty(r) ==
  /\ pc[r] = "competitors"
  /\ result[r].competitors = {}
  /\ pc' = [pc EXCEPT ![r] = "aggregate"]
  /\ UNCHANGED <<hotelFk, runId, result, coll, off, stats, caught, pending, issued,
                 answers, normalizerCalls, printed, thrown, exitCode,
                 hotels, nextHotelPk, importRuns, outputRows, competitorSet, runVars>>

\* faulty variant: upsertCompetitors is called without await
UpsertCompetitorsCall_NoAwait(r) ==
  /\ pc[r] = "competitors"
  /\ result[r].competitors # {}
  /\ Send(r, Request("upsert", "hotel_competitor_set", 0,
                     Cardinality(result[r].competitors), NoPayload))
  /\ pc' = [pc EXCEPT ![r] = "aggregate"]
  /\ UNCHANGED <<hotelFk, runId, result, coll, off, stats, caught, answers,
                 normalizerCalls, printed, thrown, exitCode, hotels, nextHotelPk,
                 importRuns, outputRows, competitorSet, runVars>>

UpsertCompetitorsCall(r) ==
  /\ pc[r] = "competitors"
  /\ result[r].competitors # {}
  /\ Send(r, Request("upsert", "hotel_competitor_set", 0,
                     Cardinality(result[r].competitors), NoPayload))
  /\ pc' = [pc EXCEPT ![r] = "wait_competitors"]
  /\ UNCHANGED <<hotelFk, runId, result, coll, off, stats, caught, answers,
                 normalizerCalls, printed, thrown, exitCode, hotels, nextHotelPk,
                 importRuns, outputRows, competitorSet, runVars>>

\* the rows of the statement; updated_at is what the store stamps on a row it
\* writes (default now() and trigger trg_hcs_updated_at, part_002 lines 50-60):
\* the run whose statement wrote the row last stands for the instant
CompetitorRows(r) ==
  {[hotel_fk |-> hotelFk[r], source |-> "booking", competitor_name |-> c,
    updated_at |-> r] : c \in result[r].competitors}

\* constraint hotel_competitor_set_unique (part_002 line 52), the onConflict target
SameKey(a, b) ==
  /\ a.hotel_fk = b.hotel_fk
  /\ a.source = b.source
  /\ a.competitor_name = b.competitor_name

\* faulty variant: the rows are inserted without a conflict target
Upserted_PlainInsert(table, rows) == table \cup rows

\* upsert(rows, { onConflict: 'hotel_fk,source,competitor_name' }): a row whose
\* key is in the table is updated in place, any other row is inserted
Upserted(table, rows) ==
  {t \in table : \A n \in rows : ~SameKey(t, n)} \cup rows

\* the answer of the upsert is not inspected: run() goes on whatever it is
UpsertCompetitorsReturn(r) ==
  /\ pc[r] = "wait_competitors"
  /\ \E req \in pending[r], o \in Outcomes :
       /\ req.op = "upsert" /\ req.table = "hotel_competitor_set"
       /\ Answer(r, req, o)
       /\ competitorSet' = IF o = "ok" THEN Upserted(competitorSet, CompetitorRows(r))
                           ELSE competitorSet
  /\ pc' = [pc EXCEPT ![r] = "aggregate"]
  /\ UNCHANGED <<hotelFk, runId, result, coll, off, stats, caught, issued,
                 normalizerCalls, printed, thrown, exitCode, hotels, nextHotelPk,
                 importRuns, outputRows, runVars>>

(* ------------------- closing the run (lines 161-186) ------------------- *)
\* stats.rowsSkipped += ...; stats.rowsCoerced += ... (lines 127-128 and alike)
StatsWithNormalizer(st, res) ==
  [st EXCEPT !.rowsSkipped = @ + res.rowsSkipped, !.rowsCoerced = @ + res.rowsCoerced]

\* errorRate as numerator/denominator (lines 161-162)
ErrorRate(st) ==
  IF st.rowsInserted + st.rowErrors = 0 THEN <<0, 1>>
  ELSE <<st.rowErrors, st.rowsInserted + st.rowErrors>>

\* faulty variant: the gate compares with >= instead of >
FracGreater_OrEqual(a, b) == a[1] * b[2] >= b[1] * a[2]

\* a > b for fractions with positive denominators
FracGreater(a, b) == a[1] * b[2] > b[1] * a[2]

\* errorRate > errorRateThreshold ? 'failed' : 'success' (line 163)
StatusOf(rate, threshold) == IF FracGreater(rate, threshold) THEN "failed" ELSE "success"

ClosePayload(st, threshold) ==
  [status |-> StatusOf(ErrorRate(st), threshold),
   finished |-> TRUE,
   error_message |-> st.errors,
   meta |-> [rows_inserted |-> st.rowsInserted, rows_skipped |-> st.rowsSkipped,
             rows_coerced |-> st.rowsCoerced, row_errors |-> st.rowErrors,
             error_rate |-> ErrorRate(st), errors |-> st.errors]]

\* faulty variant: the summary reports success whatever the error-rate gate assigned
Summary_AlwaysSuccess(st, threshold) ==
  [status |-> "success",
   rows_inserted |-> st.rowsInserted, rows_skipped |-> st.rowsSkipped,
   rows_coerced |-> st.rowsCoerced, row_errors |-> st.rowErrors,
   error_rate |-> ErrorRate(st)]

Summary(st, threshold) ==
  [status |-> StatusOf(ErrorRate(st), threshold),
   rows_inserted |-> st.rowsInserted, rows_skipped |-> st.rowsSkipped,
   rows_coerced |-> st.rowsCoerced, row_errors |-> st.rowErrors,
   error_rate |-> ErrorRate(st)]

\* UPDATE import_runs SET <payload> WHERE id = <id>
RunsAfterUpdate(runs, id, p) ==
  [runs EXCEPT ![id] = [@ EXCEPT !.status = p.status, !.finished = p.finished,
                                 !.error_message = p.error_message, !.meta = p.meta,
                                 !.updates = @ + 1]]

CloseCall(r) ==
  /\ pc[r] = "aggregate"
  /\ stats' = [stats EXCEPT ![r] = StatsWithNormalizer(@, result[r])]
  /\ Send(r, Request("update", "import_runs", runId[r], runId[r],
                     ClosePayload(stats'[r], config[r].threshold)))
  /\ pc' = [pc EXCEPT ![r] = "wait_close"]
  /\ UNCHANGED <<hotelFk, runId, result, coll, off, caught, answers, normalizerCalls,
                 printed, thrown, exitCode, hotels, nextHotelPk, importRuns,
                 outputRows, competitorSet, runVars>>

\* faulty variant: printing the summary throws after the record was closed
CloseReturn_ThrowAfterClose(r) ==
  /\ pc[r] = "wait_close"
  /\ \E req \in pending[r], o \in Outcomes :
       /\ req.op = "update"
       /\ Answer(r, req, o)
       /\ importRuns' = IF o = "ok" THEN RunsAfterUpdate(importRuns, req.lo, req.payload)
                        ELSE importRuns
       /\ caught' = [caught EXCEPT ![r] = <<"console.log", o>>]
  /\ pc' = [pc EXCEPT ![r] = "catch"]
  /\ UNCHANGED <<hotelFk, runId, result, coll, off, stats, issued, normalizerCalls,
                 printed, thrown, exitCode, hotels, nextHotelPk, outputRows,
                 competitorSet, runVars>>

\* faulty variant: the process outcome follows the status the error-rate gate assigned
CloseReturn_ExitByStatus(r) ==
  /\ pc[r] = "wait_close"
  /\ \E req \in pending[r], o \in Outcomes :
       /\ req.op = "update"
       /\ Answer(r, req, o)
       /\ IF o = "ok"
          THEN /\ importRuns' = RunsAfterUpdate(importRuns, req.lo, req.payload)
               /\ printed' = [printed EXCEPT ![r] =
                                Append(@, Summary(stats[r], config[r].threshold))]
               /\ exitCode' = [exitCode EXCEPT ![r] =
                                 IF req.payload.status = "failed" THEN 1 ELSE 0]
               /\ pc' = [pc EXCEPT ![r] = "returned"]
               /\ UNCHANGED caught
          ELSE /\ caught' = [caught EXCEPT ![r] = <<"import_runs update failed", o>>]
               /\ pc' = [pc EXCEPT ![r] = "catch"]
               /\ UNCHANGED <<importRuns, printed, exitCode>>
  /\ UNCHANGED <<hotelFk, runId, result, coll, off, stats, issued,
                 normalizerCalls, thrown, hotels, nextHotelPk, outputRows,
                 competitorSet, runVars>>

CloseReturn(r) ==
  /\ pc[r] = "wait_close"
  /\ \E req \in pending[r], o \in Outcomes :
       /\ req.op = "update"
       /\ Answer(r, req, o)
       /\ IF o = "ok"
          THEN /\ importRuns' = RunsAfterUpdate(importRuns, req.lo, req.payload)
               /\ printed' = [printed EXCEPT ![r] =
                                Append(@, Summary(stats[r], config[r].threshold))]
               /\ exitCode' = [exitCode EXCEPT ![r] = 0]
               /\ pc' = [pc EXCEPT ![r] = "returned"]
               /\ UNCHANGED caught
          ELSE /\ caught' = [caught EXCEPT ![r] = <<"import_runs update failed", o>>]
               /\ pc' = [pc EXCEPT ![r] = "catch"]
               /\ UNCHANGED <<importRuns, printed, exitCode>>
  /\ UNCHANGED <<hotelFk, runId, result, coll, off, stats, issued,
                 normalizerCalls, thrown, hotels, nextHotelPk, outputRows,
                 competitorSet, runVars>>

(* ---------------------- catch block (lines 187-196) -------------------- *)
CatchPayload(message) ==
  [status |-> "failed", finished |-> TRUE, error_message |-> <<message>>,
   meta |-> [errors |-> <<message>>]]

\* faulty variant: the catch block rethrows without closing the run record
CatchCall_NoUpdate(r) ==
  /\ pc[r] = "catch"
  /\ thrown' = [thrown EXCEPT ![r] = caught[r]]
  /\ exitCode' = [exitCode EXCEPT ![r] = 1]
  /\ pc' = [pc EXCEPT ![r] = "thrown"]
  /\ UNCHANGED <<hotelFk, runId, result, coll, off, stats, caught, pending, issued,
                 answers, normalizerCalls, printed, hotels, nextHotelPk, importRuns,
                 outputRows, competitorSet, runVars>>

CatchCall(r) ==
  /\ pc[r] = "catch"
  /\ Send(r, Request("update", "import_runs", runId[r], runId[r], CatchPayload(caught[r])))
  /\ pc' = [pc EXCEPT ![r] = "wait_catch"]
  /\ UNCHANGED <<hotelFk, runId, result, coll, off, stats, caught, answers,
                 normalizerCalls, printed, thrown, exitCode, hotels, nextHotelPk,
                 importRuns, outputRows, competitorSet, runVars>>

\* throw error (line 195), unless updateImportRun threw first (line 79);
\* run().catch then ends the process with exit code 1 (lines 199-202)
CatchReturn(r) ==
  /\ pc[r] = "wait_catch"
  /\ \E req \in pending[r], o \in Outcomes :
       /\ req.op = "update"
       /\ Answer(r, req, o)
       /\ IF o = "ok"
          THEN /\ importRuns' = RunsAfterUpdate(importRuns, req.lo, req.payload)
               /\ thrown' = [thrown EXCEPT ![r] = caught[r]]
          ELSE /\ thrown' = [thrown EXCEPT ![r] = <<"import_runs update failed", o>>]
               /\ UNCHANGED importRuns
  /\ exitCode' = [exitCode EXCEPT ![r] = 1]
  /\ pc' = [pc EXCEPT ![r] = "thrown"]
  /\ UNCHANGED <<hotelFk, runId, result, coll, off, stats, caught, issued,
                 normalizerCalls, printed, hotels, nextHotelPk, outputRows,
                 competitorSet, runVars>>

Next == \E r \in Runs :
  \/ UpsertHotelCall(r)
  \/ UpsertHotelReturn(r)
  \/ CreateImportRunCall(r)
  \/ CreateImportRunReturn(r)
  \/ UnknownTemplate(r)
  \/ NormalizerCall(r)
  \/ NormalizerReturn(r)
  \/ NormalizerThrow(r)
  \/ BatchInsertCall(r)
  \/ BatchInsertReturn(r)
  \/ BatchInsertDone(r)
  \/ UpsertCompetitorsEmpty(r)
  \/ UpsertCompetitorsCall(r)
  \/ UpsertCompetitorsReturn(r)
  \/ CloseCall(r)
  \/ CloseReturn(r)
  \/ CatchCall(r)
  \/ CatchReturn(r)

Spec == Init /\ [][Next]_vars

(* ------------- invocations side by side: resolving the hotel ------------ *)
\* Several invocations run side by side, each as its own process, for the same or
\* for different hotels. Only upsertHotel writes public.hotels and only
\* createImportRun adds to public.import_runs, so the race is explored up to the
\* point where each invocation holds its hotelFk and runId.
OpenConfigs ==
  {c \in Configs : c.template = "planning" /\ c.batchSize = 1
                   /\ c.threshold = DefaultErrorRateThreshold}

InitOpen ==
  /\ InitRun
  /\ NormIdle /\ DateIdle
  /\ pc = [r \in Runs |-> "start"]
  /\ rowBound = 0
  /\ config \in [Runs -> OpenConfigs]

NextOpen == \E r \in Runs :
  \/ UpsertHotelCall(r)
  \/ UpsertHotelReturn(r)
  \/ CreateImportRunCall(r)
  \/ CreateImportRunReturn(r)

SpecOpen == InitOpen /\ [][NextOpen]_vars

(* ------------- invocations in sequence: the competitor labels ---------- *)
\* The caller starts one invocation after the other, for the same or for
\* different hotels, each on a workbook of at most one row.
LabelConfigs ==
  {c \in Configs : /\ c.template \in {"booking_lowest", "planning", "inventory"}
                   /\ c.hotel_name = "" /\ c.batchSize = 1
                   /\ c.threshold = DefaultErrorRateThreshold}

InitLabels ==
  /\ InitRun
  /\ NormIdle /\ DateIdle
  /\ pc = [r \in Runs |-> IF r = 1 THEN "start" ELSE "off"]
  /\ rowBound = 1
  /\ config \in [Runs -> LabelConfigs]

\* the process of invocation r is started once the one before it has ended
StartNext(r) ==
  /\ r > 1
  /\ pc[r] = "off"
  /\ pc[r - 1] \in {"returned", "thrown"}
  /\ pc' = [pc EXCEPT ![r] = "start"]
  /\ UNCHANGED <<hotelFk, runId, result, coll, off, stats, caught, pending, issued,
                 answers, normalizerCalls, printed, thrown, exitCode, hotels,
                 nextHotelPk, importRuns, outputRows, competitorSet, runVars>>

NextLabels == Next \/ \E r \in Runs : StartNext(r)

SpecLabels == InitLabels /\ [][NextLabels]_vars

(* ========================= cell values and text ========================= *)
\* A cell value as cellToValue returns it (part_006:3-14): null, a text (its
\* characters), a number (the fraction n/d) or a native date (n: days since
\* 1970-01-01, the instant being 00:00 UTC of that day).
NullCell == [t |-> "null", s |-> <<>>, n |-> 0, d |-> 1]
TextCell(chars) == [t |-> "text", s |-> chars, n |-> 0, d |-> 1]
NumCell(k) == [t |-> "num", s |-> <<>>, n |-> k, d |-> 1]
DateCell(days) == [t |-> "date", s |-> <<>>, n |-> days, d |-> 1]

Digits == {"0", "1", "2", "3", "4", "5", "6", "7", "8", "9"}
\* the no-break space U+00A0, and what \s matches
Nbsp == "nbsp"
WhiteSpace == {" ", Nbsp}

RECURSIVE DigitsOf(_)
DigitsOf(k) ==
  IF k < 10 THEN <<<<"0", "1", "2", "3", "4", "5", "6", "7", "8", "9">>[k + 1]>>
  ELSE DigitsOf(k \div 10) \o DigitsOf(k % 10)

DigitVal(c) == CHOOSE k \in 0..9 : c = DigitsOf(k)[1]

\* String(value) for the values of the model: an integer prints its digits, a
\* native date a text that starts with the names of a weekday and a month
ToText(c) ==
  CASE c.t = "null" -> <<"n", "u", "l", "l">>
    [] c.t = "text" -> c.s
    [] c.t = "num" -> IF c.n < 0 THEN <<"-">> \o DigitsOf(0 - c.n) ELSE DigitsOf(c.n)
    [] c.t = "date" -> <<"S", "a", "t", " ", "M", "a", "r">>

RECURSIVE TrimLeft(_)
TrimLeft(s) == IF s # <<>> /\ Head(s) \in WhiteSpace THEN TrimLeft(Tail(s)) ELSE s
RECURSIVE TrimRight(_)
TrimRight(s) ==
  IF s # <<>> /\ s[Len(s)] \in WhiteSpace THEN TrimRight(SubSeq(s, 1, Len(s) - 1)) ELSE s
\* String.prototype.trim
Trim(s) == TrimRight(TrimLeft(s))

\* the characters of s that are in keep, and those that are not in drop
RECURSIVE Keep(_, _)
Keep(s, keep) ==
  IF s = <<>> THEN <<>>
  ELSE (IF Head(s) \in keep THEN <<Head(s)>> ELSE <<>>) \o Keep(Tail(s), keep)
RECURSIVE Drop(_, _)
Drop(s, drop) ==
  IF s = <<>> THEN <<>>
  ELSE (IF Head(s) \in drop THEN <<>> ELSE <<Head(s)>>) \o Drop(Tail(s), drop)

\* String.prototype.lastIndexOf for one character, 1-based, 0 when absent
LastIndexOf(s, c) ==
  IF \E i \in 1..Len(s) : s[i] = c
  THEN CHOOSE i \in 1..Len(s) : s[i] = c /\ \A j \in (i + 1)..Len(s) : s[j] # c
  ELSE 0
\* String.prototype.replace(c, d) with a text pattern: the first occurrence only
ReplaceFirst(s, c, d) ==
  IF \E i \in 1..Len(s) : s[i] = c
  THEN LET i == CHOOSE i \in 1..Len(s) : s[i] = c /\ \A j \in 1..(i - 1) : s[j] # c
       IN [s EXCEPT ![i] = d]
  ELSE s

LowerOf(c) ==
  CASE c = "L" -> "l" [] c = "O" -> "o" [] c = "S" -> "s" [] c = "X" -> "x"
    [] c = "N" -> "n" [] c = "T" -> "t" [] c = "E" -> "e" [] c = "A" -> "a"
    [] c = "I" -> "i" [] c = "P" -> "p" [] c = "R" -> "r" [] c = "M" -> "m"
    [] c = "D" -> "d" [] c = "F" -> "f"
    [] OTHER -> c
\* String.prototype.toLowerCase over the letters the model writes
ToLowerCase(s) == [i \in 1..Len(s) |-> LowerOf(s[i])]

\* String.prototype.includes
Includes(s, pat) ==
  \E i \in 1..(Len(s) - Len(pat) + 1) : SubSeq(s, i, i + Len(pat) - 1) = pat
EndsWith(s, pat) == Len(s) >= Len(pat) /\ SubSeq(s, Len(s) - Len(pat) + 1, Len(s)) = pat

\* value === null || value === undefined || String(value).trim() === ''
IsBlank(c) == c.t = "null" \/ Trim(ToText(c)) = <<>>
\* JavaScript truthiness of a cell value
Truthy(c) ==
  CASE c.t = "null" -> FALSE
    [] c.t = "text" -> c.s # <<>>
    [] c.t = "num" -> c.n # 0
    [] c.t = "date" -> TRUE

\* isRowEmpty (part_006:37-39)
isRowEmpty(values) == \A i \in 1..Len(values) : IsBlank(values[i])

(* ------------------- parseNumeric (part_006:41-76) --------------------- *)
\* a parsed number is the fraction <<numerator, power of ten>>, null is <<>>
NullNum == <<>>
AllDigits(s) == \A i \in 1..Len(s) : s[i] \in Digits
RECURSIVE Reduced(_, _)
Reduced(num, den) ==
  IF den > 1 /\ num % 10 = 0 THEN Reduced(num \div 10, den \div 10) ELSE <<num, den>>
RECURSIVE DigitsValue(_)
DigitsValue(s) ==
  IF s = <<>> THEN 0 ELSE DigitsValue(SubSeq(s, 1, Len(s) - 1)) * 10 + DigitVal(s[Len(s)])
RECURSIVE PowerOfTen(_)
PowerOfTen(k) == IF k = 0 THEN 1 ELSE 10 * PowerOfTen(k - 1)

\* Number(text) for a text of digits, dots and minus signs: NaN unless the text is
\* an optional leading minus and digits around at most one dot
NumberParts(sign, whole, frac) ==
  IF AllDigits(whole) /\ AllDigits(frac) /\ Len(whole) + Len(frac) > 0
  THEN Reduced(sign * DigitsValue(whole \o frac), PowerOfTen(Len(frac)))
  ELSE NullNum
NumberAround(sign, body, dot) ==
  IF dot = 0 THEN NumberParts(sign, body, <<>>)
  ELSE NumberParts(sign, SubSeq(body, 1, dot - 1), SubSeq(body, dot + 1, Len(body)))
NumberOf(s) ==
  IF s # <<>> /\ Head(s) = "-" THEN NumberAround(-1, Tail(s), LastIndexOf(Tail(s), "."))
  ELSE NumberAround(1, s, LastIndexOf(s, "."))

\* parseNumeric with every comma read as the decimal point
Normalized_CommaIsDecimal(cleaned) == ReplaceFirst(cleaned, ",", ".")

\* lines 52-64: spaces removed, then the decimal separator chosen
Normalized(cleaned) ==
  LET hasComma == \E i \in 1..Len(cleaned) : cleaned[i] = ","
      hasDot == \E i \in 1..Len(cleaned) : cleaned[i] = "."
  IN IF hasComma /\ hasDot
     THEN IF LastIndexOf(cleaned, ",") > LastIndexOf(cleaned, ".")
          THEN ReplaceFirst(Drop(cleaned, {"."}), ",", ".")
          ELSE Drop(cleaned, {","})
     ELSE IF hasComma THEN ReplaceFirst(cleaned, ",", ".") ELSE cleaned

\* lines 65-70
ParseNormalized(normalized) ==
  IF normalized \in {<<>>, <<"-">>, <<".">>, <<"-", ".">>} THEN NullNum
  ELSE NumberOf(normalized)
\* lines 48-64 for the text of the value
ParseText(text) ==
  IF text = <<>> THEN NullNum
  ELSE ParseNormalized(Keep(Normalized(Drop(text, WhiteSpace)), Digits \cup {".", "-"}))
parseNumeric(c) ==
  IF c.t = "null" THEN NullNum
  ELSE IF c.t = "num" THEN <<c.n, c.d>>
  ELSE ParseText(Trim(ToText(c)))

ZeroIfNull(parsed) == IF parsed = NullNum THEN <<0, 1>> ELSE parsed
parseNumericZero(c) == ZeroIfNull(parseNumeric(c))

\* parsed === null && value !== null && value !== undefined && String(value).trim() !== ''
FailsParsing(c) == parseNumeric(c) = NullNum /\ ~IsBlank(c)

(* ---------------------- date utilities (part_005) ---------------------- *)
\* the proleptic Gregorian calendar, as the JavaScript Date and Luxon compute it
IsLeap(y) == (y % 4 = 0 /\ y % 100 # 0) \/ y % 400 = 0
DaysInMonth(y, m) ==
  IF m = 2 THEN (IF IsLeap(y) THEN 29 ELSE 28)
  ELSE IF m \in {4, 6, 9, 11} THEN 30 ELSE 31

\* days since 1970-01-01 of the civil date y-m-d, and back
DaysFromCivil(y, m, d) ==
  LET yy == IF m <= 2 THEN y - 1 ELSE y
      era == yy \div 400
      yoe == yy - era * 400
      mp == IF m > 2 THEN m - 3 ELSE m + 9
      doy == (153 * mp + 2) \div 5 + d - 1
      doe == yoe * 365 + yoe \div 4 - yoe \div 100 + doy
  IN era * 146097 + doe - 719468
CivilFromDays(z) ==
  LET zz == z + 719468
      era == zz \div 146097
      doe == zz - era * 146097
      yoe == (doe - doe \div 1460 + doe \div 36524 - doe \div 146096) \div 365
      doy == doe - (365 * yoe + yoe \div 4 - yoe \div 100)
      mp == (5 * doy + 2) \div 153
      d == doy - (153 * mp + 2) \div 5 + 1
      m == IF mp < 10 THEN mp + 3 ELSE mp - 9
  IN [year |-> yoe + era * 400 + (IF m <= 2 THEN 1 ELSE 0), month |-> m, day |-> d]

\* new Date(Date.UTC(1899, 11, 30)) in days since 1970-01-01 (line 4)
ExcelEpochDay == DaysFromCivil(1899, 12, 30)
\* excelDateToJS for a whole serial: the day of the instant, which is at 00:00 UTC
excelDateToJS(value) == ExcelEpochDay + value
\* the serials above which a number is read as a date (lines 19, 39, 64)
SerialThreshold == 30000

Pad(k, width) ==
  LET ds == DigitsOf(k)
  IN [i \in 1..(width - Len(ds)) |-> "0"] \o ds
\* DateTime.toISODate: YYYY-MM-DD
ToISODate(y, m, d) == Pad(y, 4) \o <<"-">> \o Pad(m, 2) \o <<"-">> \o Pad(d, 2)
NullDate == <<>>

\* DateTime.fromJSDate(date).toISODate(): the calendar day, in the zone the process
\* runs in, of an instant at 00:00 UTC; zone is the UTC offset in hours
LocalISODate(day, zone) ==
  LET c == CivilFromDays(IF zone < 0 THEN day - 1 ELSE day)
  IN ToISODate(c.year, c.month, c.day)

InvalidDateTime == [isValid |-> FALSE, year |-> 0, month |-> 0, day |-> 0]
DateTimeOf(y, m, d) ==
  IF m \in 1..12 /\ d >= 1 /\ d <= DaysInMonth(y, m)
  THEN [isValid |-> TRUE, year |-> y, month |-> m, day |-> d]
  ELSE InvalidDateTime

\* DateTime.fromFormat(text, 'dd/MM/yyyy'): two digits, two digits, four digits
FromFormatLongYear(text) ==
  IF /\ Len(text) = 10 /\ text[3] = "/" /\ text[6] = "/"
     /\ AllDigits(SubSeq(text, 1, 2)) /\ AllDigits(SubSeq(text, 4, 5))
     /\ AllDigits(SubSeq(text, 7, 10))
  THEN DateTimeOf(DigitsValue(SubSeq(text, 7, 10)), DigitsValue(SubSeq(text, 4, 5)),
                  DigitsValue(SubSeq(text, 1, 2)))
  ELSE InvalidDateTime
\* DateTime.fromFormat(text, 'dd/MM/yy'): a two-digit year above 60 is in 19xx
ShortYear(yy) == IF yy > 60 THEN 1900 + yy ELSE 2000 + yy
FromFormatShortYear(text) ==
  IF /\ Len(text) = 8 /\ text[3] = "/" /\ text[6] = "/"
     /\ AllDigits(SubSeq(text, 1, 2)) /\ AllDigits(SubSeq(text, 4, 5))
     /\ AllDigits(SubSeq(text, 7, 8))
  THEN DateTimeOf(ShortYear(DigitsValue(SubSeq(text, 7, 8))),
                  DigitsValue(SubSeq(text, 4, 5)), DigitsValue(SubSeq(text, 1, 2)))
  ELSE InvalidDateTime
\* a || b in JavaScript is a unless a is falsy, and an object, such as the DateTime
\* that fromFormat returns for a text it cannot read, is never falsy
OrElse(a, b) == a

\* DateTime.fromISO(text) for a calendar date: four digits of year, then optionally
\* a month and optionally a day, each of two digits after an optional hyphen
\* (ordinal and week dates and times of day are not among the texts explored)
SkipHyphen(s) == IF s # <<>> /\ Head(s) = "-" THEN Tail(s) ELSE s
FromISOParts(year, afterYear, afterMonth) ==
  IF /\ Len(year) = 4 /\ AllDigits(year)
     /\ afterYear # <<>> => (Len(afterYear) >= 2 /\ AllDigits(SubSeq(afterYear, 1, 2)))
     /\ Len(afterYear) > 2 => (Len(afterMonth) = 2 /\ AllDigits(afterMonth))
  THEN DateTimeOf(DigitsValue(year),
                  IF afterYear # <<>> THEN DigitsValue(SubSeq(afterYear, 1, 2)) ELSE 1,
                  IF Len(afterYear) > 2 THEN DigitsValue(afterMonth) ELSE 1)
  ELSE InvalidDateTime
FromISOAfterYear(text, afterYear) ==
  IF Len(text) > 4 /\ afterYear = <<>> THEN InvalidDateTime
  ELSE FromISOParts(SubSeq(text, 1, 4), afterYear,
                    SkipHyphen(SubSeq(afterYear, 3, Len(afterYear))))
FromISO(text) ==
  IF Len(text) < 4 THEN InvalidDateTime
  ELSE FromISOAfterYear(text, SkipHyphen(SubSeq(text, 5, Len(text))))

ISODateOf(dt) == ToISODate(dt.year, dt.month, dt.day)
\* lines 25-29
FirstValidDate(dt, parsed) ==
  IF dt.isValid THEN ISODateOf(dt)
  ELSE IF parsed.isValid THEN ISODateOf(parsed) ELSE NullDate
\* lines 22-29 for the trimmed text of the value
DateOfText(text) ==
  FirstValidDate(OrElse(FromFormatLongYear(text), FromFormatShortYear(text)), FromISO(text))
\* normalizeDate (lines 12-30), in a process whose zone has UTC offset zone
normalizeDate(value, zone) ==
  IF value.t = "null" \/ value = TextCell(<<>>) THEN NullDate
  ELSE IF value.t = "date" THEN LocalISODate(value.n, zone)
  ELSE IF value.t = "num" /\ value.n > SerialThreshold
       THEN LocalISODate(excelDateToJS(value.n), zone)
  ELSE DateOfText(Trim(ToText(value)))

\* splitDateTime (lines 32-55): the date and the HH:mm:ss time of a cell, for a
\* text that is an ISO calendar date, dd/MM/yyyy HH:mm or dd/MM/yyyy HH:mm:ss
IsTimeText(t) ==
  /\ Len(t) \in {5, 8}
  /\ AllDigits(SubSeq(t, 1, 2)) /\ t[3] = ":" /\ AllDigits(SubSeq(t, 4, 5))
  /\ DigitsValue(SubSeq(t, 1, 2)) < 24 /\ DigitsValue(SubSeq(t, 4, 5)) < 60
  /\ Len(t) = 8 => (t[6] = ":" /\ AllDigits(SubSeq(t, 7, 8))
                      /\ DigitsValue(SubSeq(t, 7, 8)) < 60)
NoDateTime == [date |-> NullDate, time |-> <<>>]
Midnight == <<"0", "0", ":", "0", "0", ":", "0", "0">>
\* lines 43-54 for the trimmed text of the value
SplitFormatted(dt, t) ==
  IF dt.isValid /\ IsTimeText(t)
  THEN [date |-> ISODateOf(dt), time |-> IF Len(t) = 8 THEN t ELSE t \o <<":", "0", "0">>]
  ELSE NoDateTime
SplitText(text, iso) ==
  IF iso.isValid THEN [date |-> ISODateOf(iso), time |-> Midnight]
  ELSE IF Len(text) > 11 /\ text[11] = " "
       THEN SplitFormatted(FromFormatLongYear(SubSeq(text, 1, 10)),
                           SubSeq(text, 12, Len(text)))
       ELSE NoDateTime
\* the local date and time of the instant 00:00 UTC of a day
SplitInstant(day, zone) ==
  [date |-> LocalISODate(day, zone),
   time |-> Pad(IF zone < 0 THEN 24 + zone ELSE zone, 2) \o <<":", "0", "0", ":", "0", "0">>]
splitDateTime(value, zone) ==
  IF value.t = "null" \/ value = TextCell(<<>>) THEN NoDateTime
  ELSE IF value.t = "date" THEN SplitInstant(value.n, zone)
  ELSE IF value.t = "num" /\ value.n > SerialThreshold
       THEN SplitInstant(excelDateToJS(value.n), zone)
  ELSE SplitText(Trim(ToText(value)), FromISO(Trim(ToText(value))))

(* ============================ normalizers =============================== *)
\* what a normalizer writes into a field: a text or null, a number or null
TextOut(chars) == IF chars = <<>> THEN NullCell ELSE TextCell(chars)
NumOut(p) ==
  IF p = NullNum THEN NullCell ELSE [t |-> "num", s |-> <<>>, n |-> p[1], d |-> p[2]]
\* Math.trunc of a parsed number
Trunc(p) ==
  IF p = NullNum THEN NullNum
  ELSE <<(IF p[1] < 0 THEN 0 - ((0 - p[1]) \div p[2]) ELSE p[1] \div p[2]), 1>>
\* value ? String(value) : null
StringOrNull(c) == IF Truthy(c) THEN TextCell(ToText(c)) ELSE NullCell

Range(s) == {s[i] : i \in 1..Len(s)}
\* String(value ?? '').trim() of every header cell
HeaderTexts(cells) ==
  [i \in 1..Len(cells) |-> IF cells[i].t = "null" THEN <<>> ELSE Trim(ToText(cells[i]))]
\* rowMap[header] = values[idx], in column order: a later column of the same
\* header wins
RowMapOf(headers, values) ==
  [h \in Range(headers) |->
     values[CHOOSE i \in 1..Len(headers) :
              headers[i] = h /\ \A j \in (i + 1)..Len(headers) : headers[j] # h]]
\* rowMap[key], null standing for undefined as well
Get(rowMap, key) == IF key \in DOMAIN rowMap THEN rowMap[key] ELSE NullCell
\* rowMap with rowMap[key] = value
Put(rowMap, key, value) ==
  [k \in DOMAIN rowMap \cup {key} |-> IF k = key THEN value ELSE rowMap[k]]
\* the outcome of scanning one row
Outcome(out, skipped, coerced) == [out |-> out, skipped |-> skipped, coerced |-> coerced]
Pushed(collection, row) == [coll |-> collection, row |-> row]
\* how many of the cells fail numeric parsing though they are not blank
RECURSIVE CountFailing(_)
CountFailing(cells) ==
  IF cells = <<>> THEN 0
  ELSE (IF FailsParsing(Head(cells)) THEN 1 ELSE 0) + CountFailing(Tail(cells))

(* ------- bookingExportNormalizer (bookingExportNormalizer.ts:11-78) ----- *)
\* the header names are written without their accents
HotelFkKey == <<"h", "o", "t", "e", "l", "_", "f", "k">>
dateColumns == <<<<"D", "a", "t", "e", " ", "d", "'", "a", "r", "r", "i", "v", "e", "e">>, <<"D", "a", "t", "e", " ", "d", "e", " ", "d", "e", "p", "a", "r", "t">>>>
datetimeColumns ==
  <<<<<<"D", "a", "t", "e", " ", "d", "'", "a", "c", "h", "a", "t">>, <<"H", "e", "u", "r", "e", " ", "d", "'", "a", "c", "h", "a", "t">>>>,
    <<<<"D", "e", "r", "n", "i", "e", "r", "e", " ", "m", "o", "d", "i", "f", "i", "c", "a", "t", "i", "o", "n">>, <<"H", "e", "u", "r", "e", " ", "d", "e", " ", "d", "e", "r", "n", "i", "e", "r", "e", " ", "m", "o", "d", "i", "f", "i", "c", "a", "t", "i", "o", "n">>>>,
    <<<<"D", "a", "t", "e", " ", "d", "'", "a", "n", "n", "u", "l", "a", "t", "i", "o", "n">>, <<"H", "e", "u", "r", "e", " ", "d", "'", "a", "n", "n", "u", "l", "a", "t", "i", "o", "n">>>>>>
numericColumns == <<<<"M", "o", "n", "t", "a", "n", "t", " ", "t", "o", "t", "a", "l">>, <<"M", "o", "n", "t", "a", "n", "t", " ", "d", "u", " ", "p", "a", "n", "i", "e", "r">>, <<"M", "o", "n", "t", "a", "n", "t", " ", "r", "e", "s", "t", "a", "n", "t">>>>
intColumns ==
  <<<<"H", "o", "t", "e", "l", " ", "(", "I", "D", ")">>, <<"N", "u", "i", "t", "s">>, <<"C", "h", "a", "m", "b", "r", "e", "s">>, <<"A", "d", "u", "l", "t", "e", "s">>, <<"E", "n", "f", "a", "n", "t", "s">>, <<"B", "e", "b", "e", "s">>, <<"G", "a", "r", "a", "n", "t", "i", "e">>,
    <<"P", "a", "r", "t", "e", "n", "a", "i", "r", "e", " ", "d", "e", " ", "d", "i", "s", "t", "r", "i", "b", "u", "t", "i", "o", "n", " ", "(", "I", "D", ")">>>>

\* lines 48-50
RECURSIVE WithDates(_, _, _)
WithDates(rowMap, cols, zone) ==
  IF cols = <<>> THEN rowMap
  ELSE WithDates(Put(rowMap, Head(cols),
                     TextOut(normalizeDate(Get(rowMap, Head(cols)), zone))),
                 Tail(cols), zone)
\* lines 52-56
RECURSIVE WithDateTimes(_, _, _)
WithDateTimes(rowMap, pairs, zone) ==
  IF pairs = <<>> THEN rowMap
  ELSE LET split == splitDateTime(Get(rowMap, Head(pairs)[1]), zone)
       IN WithDateTimes(Put(Put(rowMap, Head(pairs)[1], TextOut(split.date)),
                            Head(pairs)[2], TextOut(split.time)),
                        Tail(pairs), zone)
\* lines 58-72: integer is TRUE for intColumns
RECURSIVE WithNumbers(_, _, _)
WithNumbers(rowMap, cols, integer) ==
  IF cols = <<>> THEN rowMap
  ELSE LET parsed == parseNumeric(Get(rowMap, Head(cols)))
       IN WithNumbers(Put(rowMap, Head(cols),
                          NumOut(IF integer THEN Trunc(parsed) ELSE parsed)),
                      Tail(cols), integer)
CellsOf(rowMap, cols) == [i \in 1..Len(cols) |-> Get(rowMap, cols[i])]

\* rows.push({ hotel_fk: hotelFk, ...rowMap }) (line 74): a key of rowMap replaces
\* the key written before the spread
SpreadOver(fk, rowMap) ==
  [k \in DOMAIN rowMap \cup {HotelFkKey} |-> IF k \in DOMAIN rowMap THEN rowMap[k] ELSE fk]

\* one iteration of the loop of lines 37-75
\* lines 58-74 for the map after the date columns
exportPushed(dated, numbered, fk) ==
  Outcome(<<Pushed("bookingExport", SpreadOver(fk, WithNumbers(numbered, intColumns, TRUE)))>>,
          0,
          CountFailing(CellsOf(dated, numericColumns))
            + CountFailing(CellsOf(numbered, intColumns)))
exportDated(dated, fk) == exportPushed(dated, WithNumbers(dated, numericColumns, FALSE), fk)
\* bookingExportNormalizer with the blank rows left out of rowsSkipped
bookingExportRow_BlankUncounted(headers, values, fk, zone) ==
  IF isRowEmpty(values) THEN Outcome(<<>>, 0, 0)
  ELSE exportDated(WithDateTimes(WithDates(RowMapOf(headers, values), dateColumns, zone),
                                 datetimeColumns, zone), fk)

bookingExportRow(headers, values, fk, zone) ==
  IF isRowEmpty(values) THEN Outcome(<<>>, 1, 0)
  ELSE exportDated(WithDateTimes(WithDates(RowMapOf(headers, values), dateColumns, zone),
                                 datetimeColumns, zone), fk)

(* ------------ eventsNormalizer (planningNormalizer.ts:137-186) ---------- *)
ImpactKey == <<"I", "n", "d", "i", "c", "e", " ", "i", "m", "p", "a", "c", "t", " ", "a", "t", "t", "e", "n", "d", "u", " ", "s", "u", "r", " ", "l", "a", " ", "d", "e", "m", "a", "n", "d", "e", " ", "/", "1", "0">>
MultiplicateurKey == <<"M", "u", "l", "t", "i", "p", "l", "i", "c", "a", "t", "e", "u", "r">>
\* parsed === null && rowMap[key] (lines 166, 169): the cell is truthy
FailsTruthy(c) == parseNumeric(c) = NullNum /\ Truthy(c)

\* one iteration of the loop of lines 153-183
eventsMapped(rowMap, fk, zone) ==
  Outcome(
            <<Pushed("events",
                [hotel_fk |-> fk,
                 Evenement |-> StringOrNull(Get(rowMap, <<"E", "v", "e", "n", "e", "m", "e", "n", "t">>)),
                 Debut |-> TextOut(normalizeDate(Get(rowMap, <<"D", "e", "b", "u", "t">>), zone)),
                 Fin |-> TextOut(normalizeDate(Get(rowMap, <<"F", "i", "n">>), zone)),
                 Impact |-> NumOut(parseNumeric(Get(rowMap, ImpactKey))),
                 Multiplicateur |-> NumOut(parseNumeric(Get(rowMap, MultiplicateurKey))),
                 Pourquoi |-> StringOrNull(Get(rowMap, <<"P", "o", "u", "r", "q", "u", "o", "i", " ", "c", "e", "t", " ", "i", "n", "d", "i", "c", "e">>)),
                 Conseils |-> StringOrNull(Get(rowMap, <<"C", "o", "n", "s", "e", "i", "l", "s", " ", "y", "i", "e", "l", "d">>))])>>,
            0,
            (IF FailsTruthy(Get(rowMap, ImpactKey)) THEN 1 ELSE 0)
              + (IF FailsTruthy(Get(rowMap, MultiplicateurKey)) THEN 1 ELSE 0))
eventsRow(headers, values, fk, zone) ==
  IF isRowEmpty(values) THEN Outcome(<<>>, 1, 0)
  ELSE eventsMapped(RowMapOf(headers, values), fk, zone)

(* ------------ planningNormalizer (planningNormalizer.ts:24-118) --------- *)
\* findLastColumn (part_006:25-35) over the header cells from startCol on: the
\* position of the last one that is not blank, the first position when all are
findLastColumn(cells) ==
  IF \E i \in 1..Len(cells) : ~IsBlank(cells[i])
  THEN CHOOSE i \in 1..Len(cells) :
         ~IsBlank(cells[i]) /\ \A j \in (i + 1)..Len(cells) : IsBlank(cells[j])
  ELSE 1
\* readRowValues (part_006:16-23) of the cells from startCol on: the first width ones
readRowValues(cells, width) ==
  [i \in 1..width |-> IF i <= Len(cells) THEN cells[i] ELSE NullCell]

\* text.replace(/\s+/g, ' ')
RECURSIVE CollapseSpaces(_)
CollapseSpaces(s) ==
  IF s = <<>> THEN <<>>
  ELSE IF Head(s) \in WhiteSpace
       THEN <<" ">> \o CollapseSpaces(TrimLeft(s))
       ELSE <<Head(s)>> \o CollapseSpaces(Tail(s))

\* lines 56-58: the room type carried forward
\* faulty variant: the first room type of the sheet is kept for all rows below
RoomTypeAfter_FirstKept(roomTypeCell, current) ==
  IF current # <<>> THEN current
  ELSE IF Truthy(roomTypeCell) THEN Trim(ToText(roomTypeCell)) ELSE <<>>

RoomTypeAfter(roomTypeCell, current) ==
  IF Truthy(roomTypeCell) /\ Trim(ToText(roomTypeCell)) # <<>>
  THEN Trim(ToText(roomTypeCell)) ELSE current

\* the callback of rowData.forEach for one cell (lines 73-114)
planningCell(date, metric, cellValue, roomType, planTarifaire, fk) ==
  IF date = NullDate THEN Outcome(<<>>, 0, 0)
  ELSE IF Includes(metric, <<"l", "e", "f", "t", " ", "f", "o", "r", " ", "s", "a", "l", "e">>)
       THEN IF IsBlank(cellValue) THEN Outcome(<<>>, 1, 0)
            ELSE LET text == Trim(ToText(cellValue))
                 IN IF ToLowerCase(text) = <<"x">>
                    THEN Outcome(<<Pushed("disponibilites",
                                     [hotel_fk |-> fk, date |-> TextCell(date),
                                      type_de_chambre |-> TextCell(roomType),
                                      disponibilites |-> NumCell(0),
                                      ferme_a_la_vente |-> TextCell(<<"x">>)])>>, 0, 1)
                    ELSE Outcome(<<Pushed("disponibilites",
                                     [hotel_fk |-> fk, date |-> TextCell(date),
                                      type_de_chambre |-> TextCell(roomType),
                                      disponibilites |-> NumOut(parseNumeric(TextCell(text))),
                                      ferme_a_la_vente |-> NullCell])>>, 0, 0)
       ELSE IF Includes(metric, <<"p", "r", "i", "c", "e">>) \/ Includes(metric, <<"t", "a", "r", "i", "f">>)
            THEN Outcome(<<Pushed("planningTarifs",
                             [hotel_fk |-> fk, date |-> TextCell(date),
                              type_de_chambre |-> TextCell(roomType),
                              plan_tarifaire |-> planTarifaire,
                              tarif |-> NumOut(parseNumeric(cellValue))])>>, 0, 0)
            ELSE Outcome(<<>>, 0, 0)

RECURSIVE planningCells(_, _, _, _, _, _)
planningCells(dates, metric, rowData, roomType, planTarifaire, fk) ==
  IF rowData = <<>> THEN Outcome(<<>>, 0, 0)
  ELSE LET first == planningCell(Head(dates), metric, Head(rowData), roomType,
                                 planTarifaire, fk)
           rest == planningCells(Tail(dates), metric, Tail(rowData), roomType,
                                 planTarifaire, fk)
       IN Outcome(first.out \o rest.out, first.skipped + rest.skipped,
                  first.coerced + rest.coerced)

\* one iteration of the loop of lines 45-115: labels are the cells of columns 1-3,
\* span the cells from column 4 on, header the cells of row 1 from column 4 on
\* faulty variant: the metric is lower-cased but its runs of spaces are kept
MetricOf_SpacesKept(c) == IF Truthy(c) THEN ToLowerCase(ToText(c)) ELSE <<>>

MetricOf(c) == IF Truthy(c) THEN CollapseSpaces(ToLowerCase(ToText(c))) ELSE <<>>
PlanTarifaireOf(c) == IF Truthy(c) THEN TextCell(Trim(ToText(c))) ELSE TextCell(<<>>)
DatesOf(dateValues, zone) ==
  [i \in 1..Len(dateValues) |-> normalizeDate(dateValues[i], zone)]
planningSpan(dates, labels, rowData, roomType, current, fk) ==
  IF isRowEmpty(labels) /\ isRowEmpty(rowData)
  THEN [roomType |-> current, outcome |-> Outcome(<<>>, 1, 0)]
  ELSE IF roomType = <<>>
       THEN [roomType |-> roomType, outcome |-> Outcome(<<>>, 1, 0)]
       ELSE [roomType |-> roomType,
             outcome |-> planningCells(dates, MetricOf(labels[3]), rowData, roomType,
                                       PlanTarifaireOf(labels[2]), fk)]
planningWide(header, labels, span, current, fk, zone, width) ==
  planningSpan(DatesOf(readRowValues(header, width), zone), labels,
               readRowValues(span, width), RoomTypeAfter(labels[1], current), current, fk)
planningRow(header, labels, span, current, fk, zone) ==
  planningWide(header, labels, span, current, fk, zone, findLastColumn(header))

(* ----------- parseUpdateDate (part_005:57-80, part_004:167-187) -------- *)
CharAt(s, i) == IF i >= 1 /\ i <= Len(s) THEN s[i] ELSE ""
\* how many digits start at position i of s, counting max at most
RECURSIVE DigitRun(_, _, _)
DigitRun(s, i, max) ==
  IF max > 0 /\ CharAt(s, i) \in Digits THEN 1 + DigitRun(s, i + 1, max - 1) ELSE 0
RECURSIVE SkipSpaces(_, _)
SkipSpaces(s, i) == IF CharAt(s, i) \in WhiteSpace THEN SkipSpaces(s, i + 1) ELSE i

\* the match of /(\d{1,2})\/(\d{1,2})(?:\/(\d{2,4}))?\s*(\d{1,2})?:?(\d{2})?/ that
\* starts at position i of s: the five groups as texts, each <<>> when absent.
\* The groups are matched from left to right, each as long as it can be: n1 to n5
\* are their lengths, p2 to p5 the positions where the later ones start.
StampGroups(s, i, n1, p2, n2, p3, n3, p4, n4, p5) ==
  [found |-> n1 > 0 /\ n2 > 0,
   day |-> SubSeq(s, i, i + n1 - 1), month |-> SubSeq(s, p2, p2 + n2 - 1),
   year |-> SubSeq(s, p3 + 1, p3 + n3), hour |-> SubSeq(s, p4, p4 + n4 - 1),
   minute |-> IF DigitRun(s, p5, 2) = 2 THEN SubSeq(s, p5, p5 + 1) ELSE <<>>]
StampFromHour(s, i, n1, p2, n2, p3, n3, p4, n4) ==
  StampGroups(s, i, n1, p2, n2, p3, n3, p4, n4,
              IF CharAt(s, p4 + n4) = ":" THEN p4 + n4 + 1 ELSE p4 + n4)
StampFromSpaces(s, i, n1, p2, n2, p3, n3, p4) ==
  StampFromHour(s, i, n1, p2, n2, p3, n3, p4, DigitRun(s, p4, 2))
StampFromYear(s, i, n1, p2, n2, p3, n3) ==
  StampFromSpaces(s, i, n1, p2, n2, p3, n3,
                  SkipSpaces(s, IF n3 = 0 THEN p3 ELSE p3 + 1 + n3))
StampFromMonth(s, i, n1, p2, n2, p3) ==
  StampFromYear(s, i, n1, p2, n2, p3,
                IF CharAt(s, p3) = "/" /\ DigitRun(s, p3 + 1, 4) >= 2
                THEN DigitRun(s, p3 + 1, 4) ELSE 0)
StampFromDay(s, i, n1, p2) ==
  StampFromMonth(s, i, n1, p2, DigitRun(s, p2, 2), p2 + DigitRun(s, p2, 2))
StampMatchAt(s, i) ==
  IF DigitRun(s, i, 2) = 2 /\ CharAt(s, i + 2) = "/" THEN StampFromDay(s, i, 2, i + 3)
  ELSE IF DigitRun(s, i, 1) = 1 /\ CharAt(s, i + 1) = "/" THEN StampFromDay(s, i, 1, i + 2)
  ELSE StampFromDay(s, i, 0, i + 1)

\* the weekday of a day, 0 for Sunday, and the offset of Europe/Paris from UTC at
\* 00:00 UTC of a day: two hours after the last Sunday of March up to the last
\* Sunday of October, one hour otherwise
LastSunday(y, m) ==
  LET last == DaysFromCivil(y, m, 31) IN last - ((last + 4) % 7)
ParisOffset(day) ==
  LET y == CivilFromDays(day).year
  IN IF day > LastSunday(y, 3) /\ day <= LastSunday(y, 10) THEN 2 ELSE 1

\* DateTime.toISO() up to the minutes: YYYY-MM-DDTHH:mm
ToISO(y, m, d, h, mi) ==
  ToISODate(y, m, d) \o <<"T">> \o Pad(h, 2) \o <<":">> \o Pad(mi, 2)
\* DateTime.fromObject({ year, month, day, hour, minute }, { zone: 'Europe/Paris' })
FromObject(y, m, d, h, mi) ==
  IF DateTimeOf(y, m, d).isValid /\ mi < 60 /\ (h < 24 \/ (h = 24 /\ mi = 0))
  THEN IF h = 24
       THEN LET c == CivilFromDays(DaysFromCivil(y, m, d) + 1)
            IN ToISO(c.year, c.month, c.day, 0, 0)
       ELSE ToISO(y, m, d, h, mi)
  ELSE NullDate

\* lines 61-66: the instant 00:00 UTC of a day, written in Europe/Paris
ParisISO(c, offset) == ToISO(c.year, c.month, c.day, offset, 0)
\* String(value).replace(/\u00a0/g, ' ')
CleanSpaces(s) == [i \in 1..Len(s) |-> IF s[i] = Nbsp THEN " " ELSE s[i]]
\* lines 70-76 for the groups of the match
StampYear(match, fallbackYear) ==
  IF match.year = <<>> THEN fallbackYear
  ELSE IF Len(match.year) = 2 THEN 2000 + DigitsValue(match.year)
  ELSE DigitsValue(match.year)
StampValue(match, fallbackYear) ==
  FromObject(StampYear(match, fallbackYear), DigitsValue(match.month),
             DigitsValue(match.day), DigitsValue(match.hour), DigitsValue(match.minute))
\* text.match(...) finds the leftmost match
StampStarts(text) == {i \in 1..Len(text) : StampMatchAt(text, i).found}
FirstStamp(text, starts) ==
  StampMatchAt(text, CHOOSE i \in starts : \A j \in starts : i <= j)
\* lines 68-79 for the cleaned text of the value
UpdateDateOfText(text, starts, parsed, fallbackYear) ==
  IF starts # {} THEN StampValue(FirstStamp(text, starts), fallbackYear)
  ELSE IF parsed.isValid THEN ToISO(parsed.year, parsed.month, parsed.day, 0, 0)
  ELSE NullDate
UpdateDateOfCleaned(text, fallbackYear) ==
  UpdateDateOfText(text, StampStarts(text), FromISO(text), fallbackYear)
parseUpdateDate(value, fallbackYear) ==
  IF value.t = "null" \/ value = TextCell(<<>>) THEN NullDate
  ELSE IF value.t = "date" THEN ParisISO(CivilFromDays(value.n), ParisOffset(value.n))
  ELSE IF value.t = "num" /\ value.n > SerialThreshold
       THEN ParisISO(CivilFromDays(excelDateToJS(value.n)),
                     ParisOffset(excelDateToJS(value.n)))
  ELSE UpdateDateOfCleaned(Trim(CleanSpaces(ToText(value))), fallbackYear)

\* parseUpdateDateFromSheet: top holds rows 1 to 5 of the sheet, from column 1 on
CellOf(top, row, col) ==
  IF col >= 1 /\ col <= Len(top[row]) THEN top[row][col] ELSE NullCell
\* lines 173-184: the cells that hold 'mis' and are followed by a parseable value
LabelledCells(top, fallbackYear) ==
  {p \in (1..5) \X (1..7) :
     /\ p[2] <= Len(top[p[1]])
     /\ top[p[1]][p[2]].t = "text"
     /\ Includes(ToLowerCase(top[p[1]][p[2]].s), <<"m", "i", "s">>)
     /\ parseUpdateDate(CellOf(top, p[1], p[2] + 1), fallbackYear) # NullDate}
FirstLabelled(labelled) ==
  CHOOSE p \in labelled :
    \A q \in labelled : p[1] < q[1] \/ (p[1] = q[1] /\ p[2] <= q[2])
ValueAfter(top, p, fallbackYear) ==
  parseUpdateDate(CellOf(top, p[1], p[2] + 1), fallbackYear)
AfterLabel(top, labelled, fallbackYear) ==
  IF labelled # {} THEN ValueAfter(top, FirstLabelled(labelled), fallbackYear)
  ELSE NullDate
FirstParsed(g3Parsed, top, fallbackYear) ==
  IF g3Parsed # NullDate THEN g3Parsed
  ELSE AfterLabel(top, LabelledCells(top, fallbackYear), fallbackYear)
parseUpdateDateFromSheet(top, fallbackYear) ==
  FirstParsed(parseUpdateDate(CellOf(top, 3, 7), fallbackYear), top, fallbackYear)

(* ------------- bookingLowestNormalizer (part_004:133-430) --------------- *)
\* ANNOTATION_PATTERN.test(text) (line 133): LOS, any white space and a digit, or
\* annotation, or note, in any letter case and anywhere in the text
MatchesAnnotation(text) ==
  LET low == ToLowerCase(text)
  IN \/ Includes(low, <<"a", "n", "n", "o", "t", "a", "t", "i", "o", "n">>)
     \/ Includes(low, <<"n", "o", "t", "e">>)
     \/ \E i \in 1..Len(low) :
          /\ i + 2 <= Len(low) /\ SubSeq(low, i, i + 2) = <<"l", "o", "s">>
          /\ LET rest == TrimLeft(SubSeq(low, i + 3, Len(low)))
             IN rest # <<>> /\ Head(rest) \in Digits

\* shouldSkipRow (lines 143-152)
shouldSkipRow(dateValue, numericValues, zone) ==
  \/ normalizeDate(dateValue, zone) = NullDate
  \/ \E i \in 1..Len(numericValues) :
       numericValues[i].t = "text" /\ MatchesAnnotation(numericValues[i].s)

\* extractHeaders (lines 154-165) over the header cells from startCol on: the header
\* texts, and as many columns are read as there are header texts
extractHeaders(cells, allowEmpty) ==
  LET headers == HeaderTexts(readRowValues(cells, findLastColumn(cells)))
  IN IF allowEmpty THEN headers ELSE SelectSeq(headers, LAMBDA h : h # <<>>)

JourKey == <<"J", "o", "u", "r">>
DateKey == <<"D", "a", "t", "e">>
DemandeKey == <<"D", "e", "m", "a", "n", "d", "e", " ", "d", "u", " ", "m", "a", "r", "c", "h", "e">>
VotreHotelKey == <<"V", "o", "t", "r", "e", " ", "h", "o", "t", "e", "l", " ", "l", "e", " ", "p", "l", "u", "s", " ", "b", "a", "s">>
DeltaSuffix == <<"_", "_", "d", "e", "l", "t", "a">>
\* Object.values(rowMap), in the order the keys were first written
ValuesOf(headers, rowMap) == [i \in 1..Len(headers) |-> rowMap[headers[i]]]
\* value !== null && value !== undefined ? String(value) : null
RawText(c) == IF c.t = "null" THEN NullCell ELSE TextCell(ToText(c))
OneIf(b) == IF b THEN 1 ELSE 0

\* one iteration of the loop over the sheet Apercu (lines 214-255)
\* lines 229-231: the headers that hold both 'tarif le plus bas' and 'mediane'
MergedHeaders(headers) ==
  SelectSeq(headers, LAMBDA h :
    Includes(ToLowerCase(h), <<"t", "a", "r", "i", "f", " ", "l", "e", " ", "p", "l", "u", "s", " ", "b", "a", "s">>)
      /\ Includes(ToLowerCase(h), <<"m", "e", "d", "i", "a", "n", "e">>))
MergedValue(rowMap, merged) ==
  IF merged = <<>> THEN NullCell ELSE NumOut(parseNumeric(rowMap[merged[1]]))
\* lines 219-254 for the map of a row that is not blank
apercuMapped(headers, rowMap, fk, dateMiseAJour, zone) ==
  IF shouldSkipRow(Get(rowMap, DateKey),
                   <<Get(rowMap, VotreHotelKey), Get(rowMap, DemandeKey)>>, zone)
  THEN Outcome(<<>>, 1, 0)
  ELSE Outcome(
                 <<Pushed("bookingApercu",
                     [hotel_fk |-> fk, date_mise_a_jour |-> dateMiseAJour,
                      Jour |-> StringOrNull(Get(rowMap, JourKey)),
                      Date |-> TextOut(normalizeDate(Get(rowMap, DateKey), zone)),
                      VotreHotel |-> NumOut(parseNumericZero(Get(rowMap, VotreHotelKey))),
                      TarifLePlusBas |-> NumOut(parseNumeric(Get(rowMap, <<"T", "a", "r", "i", "f", " ", "l", "e", " ", "p", "l", "u", "s", " ", "b", "a", "s">>))),
                      Mediane |-> NumOut(parseNumeric(Get(rowMap, <<"m", "e", "d", "i", "a", "n", "e", " ", "d", "u", " ", "c", "o", "m", "p", "s", "e", "t">>))),
                      TarifEtMediane |-> MergedValue(rowMap, MergedHeaders(headers)),
                      Classement |-> StringOrNull(Get(rowMap, <<"C", "l", "a", "s", "s", "e", "m", "e", "n", "t", " ", "d", "e", "s", " ", "t", "a", "r", "i", "f", "s", " ", "d", "u", " ", "c", "o", "m", "p", "s", "e", "t">>)),
                      Demande |-> NumOut(parseNumericZero(Get(rowMap, DemandeKey))),
                      BookingClassement |-> StringOrNull(Get(rowMap, <<"B", "o", "o", "k", "i", "n", "g", ".", "c", "o", "m", " ", "C", "l", "a", "s", "s", "e", "m", "e", "n", "t">>)),
                      JoursFeries |-> StringOrNull(Get(rowMap, <<"J", "o", "u", "r", "s", " ", "f", "e", "r", "i", "e", "s">>)),
                      Evenements |-> StringOrNull(Get(rowMap, <<"E", "v", "e", "n", "e", "m", "e", "n", "t", "s">>)),
                      raw_row |-> rowMap])>>,
                 0, OneIf(FailsParsing(Get(rowMap, VotreHotelKey))) + OneIf(FailsParsing(Get(rowMap, DemandeKey))))
apercuRow(headers, values, fk, dateMiseAJour, zone) ==
  IF isRowEmpty(values) THEN Outcome(<<>>, 0, 0)
  ELSE apercuMapped(headers, RowMapOf(headers, values), fk, dateMiseAJour, zone)

\* headers.forEach of lines 294-315: one row per competitor column
RECURSIVE tarifsCompetitors(_, _, _, _, _, _)
tarifsCompetitors(hs, rowMap, fk, dateMiseAJour, jour, date) ==
  IF hs = <<>> THEN Outcome(<<>>, 0, 0)
  ELSE LET rest == tarifsCompetitors(Tail(hs), rowMap, fk, dateMiseAJour, jour, date)
           rawPrice == rowMap[Head(hs)]
       IN IF Head(hs) \in {JourKey, DateKey, DemandeKey} THEN rest
          ELSE Outcome(
                 <<Pushed("bookingTarifsCompetitors",
                     [hotel_fk |-> fk, date_mise_a_jour |-> dateMiseAJour, Jour |-> jour,
                      Date |-> date, competitor_name |-> TextCell(Head(hs)),
                      price |-> NumOut(parseNumericZero(rawPrice)),
                      raw_price |-> RawText(rawPrice)])>> \o rest.out,
                 0, OneIf(FailsParsing(rawPrice)) + rest.coerced)

\* one iteration of the loop over the sheet Tarifs (lines 264-316)
\* a first row with its count of coerced cells, followed by the rows of rest
Joined(first, coerced, rest) == Outcome(<<first>> \o rest.out, 0, coerced + rest.coerced)
tarifsPushed(headers, rowMap, fk, dateMiseAJour, jour, date) ==
  Joined(Pushed("bookingTarifsMarket",
           [hotel_fk |-> fk, date_mise_a_jour |-> dateMiseAJour, Jour |-> jour,
            Date |-> date, Demande |-> NumOut(parseNumericZero(Get(rowMap, DemandeKey))),
            raw_row |-> rowMap]),
         OneIf(FailsParsing(Get(rowMap, DemandeKey))),
         tarifsCompetitors(headers, rowMap, fk, dateMiseAJour, jour, date))
tarifsMapped(headers, rowMap, fk, dateMiseAJour, zone) ==
  IF shouldSkipRow(Get(rowMap, DateKey), ValuesOf(headers, rowMap), zone)
  THEN Outcome(<<>>, 1, 0)
  ELSE tarifsPushed(headers, rowMap, fk, dateMiseAJour, StringOrNull(Get(rowMap, JourKey)),
                    TextOut(normalizeDate(Get(rowMap, DateKey), zone)))
tarifsRow(headers, values, fk, dateMiseAJour, zone) ==
  IF isRowEmpty(values) THEN Outcome(<<>>, 0, 0)
  ELSE tarifsMapped(headers, RowMapOf(headers, values), fk, dateMiseAJour, zone)

\* lines 334-343: a blank header after a named one is the delta column of that one
RECURSIVE reconstructedHeaders(_, _)
reconstructedHeaders(headers, lastHeader) ==
  IF headers = <<>> THEN <<>>
  ELSE IF Head(headers) = <<>> /\ lastHeader # <<>>
       THEN <<lastHeader \o DeltaSuffix>> \o reconstructedHeaders(Tail(headers), lastHeader)
       ELSE <<Head(headers)>> \o reconstructedHeaders(Tail(headers), Head(headers))

\* reconstructedHeaders.forEach of lines 383-416: one row per competitor column
RECURSIVE vsCompetitors(_, _, _, _, _, _, _)
vsCompetitors(hs, rowMap, fk, dateMiseAJour, horizon, jour, date) ==
  IF hs = <<>> THEN Outcome(<<>>, 0, 0)
  ELSE LET rest == vsCompetitors(Tail(hs), rowMap, fk, dateMiseAJour, horizon, jour, date)
           rawPrice == rowMap[Head(hs)]
           rawDelta == Get(rowMap, Head(hs) \o DeltaSuffix)
       IN IF \/ Head(hs) \in {JourKey, DateKey, DemandeKey, DemandeKey \o DeltaSuffix}
             \/ EndsWith(Head(hs), DeltaSuffix)
          THEN rest
          ELSE Outcome(
                 <<Pushed("bookingVsCompetitors",
                     [hotel_fk |-> fk, date_mise_a_jour |-> dateMiseAJour,
                      horizon |-> horizon, Jour |-> jour, Date |-> date,
                      competitor_name |-> TextCell(Head(hs)),
                      price |-> NumOut(parseNumericZero(rawPrice)),
                      delta |-> NumOut(parseNumericZero(rawDelta)),
                      raw_price |-> RawText(rawPrice),
                      raw_delta |-> RawText(rawDelta)])>> \o rest.out,
                 0, OneIf(FailsParsing(rawPrice)) + OneIf(FailsParsing(rawDelta))
                      + rest.coerced)

\* one iteration of the loop over a sheet vs. (lines 345-417); headers are the
\* reconstructed ones
vsPushed(headers, rowMap, fk, dateMiseAJour, horizon, jour, date) ==
  Joined(Pushed("bookingVsMarket",
           [hotel_fk |-> fk, date_mise_a_jour |-> dateMiseAJour,
            horizon |-> horizon, Jour |-> jour, Date |-> date,
            Demande |-> NumOut(parseNumericZero(Get(rowMap, DemandeKey))),
            delta_demande |-> NumOut(parseNumericZero(Get(rowMap, DemandeKey \o DeltaSuffix))),
            raw_demande |-> RawText(Get(rowMap, DemandeKey)),
            raw_delta_demande |-> RawText(Get(rowMap, DemandeKey \o DeltaSuffix)),
            raw_row |-> rowMap]),
         OneIf(FailsParsing(Get(rowMap, DemandeKey)))
           + OneIf(FailsParsing(Get(rowMap, DemandeKey \o DeltaSuffix))),
         vsCompetitors(headers, rowMap, fk, dateMiseAJour, horizon, jour, date))
vsMapped(headers, rowMap, fk, dateMiseAJour, horizon, zone) ==
  IF shouldSkipRow(Get(rowMap, DateKey), ValuesOf(headers, rowMap), zone)
  THEN Outcome(<<>>, 1, 0)
  ELSE vsPushed(headers, rowMap, fk, dateMiseAJour, horizon,
                StringOrNull(Get(rowMap, JourKey)),
                TextOut(normalizeDate(Get(rowMap, DateKey), zone)))
vsRow(headers, values, fk, dateMiseAJour, horizon, zone) ==
  IF isRowEmpty(values) THEN Outcome(<<>>, 0, 0)
  ELSE vsMapped(headers, RowMapOf(headers, values), fk, dateMiseAJour, horizon, zone)

\* faulty variant: the labels of the versus sheets are not added
CompetitorsOf_TarifsOnly(out) ==
  {out[i].row.competitor_name.s :
     i \in {j \in 1..Len(out) : out[j].coll = "bookingTarifsCompetitors"}}


\* the competitor names a row adds to the set competitors (lines 305, 403)
CompetitorsOf(out) ==
  {out[i].row.competitor_name.s :
     i \in {j \in 1..Len(out) :
              out[j].coll \in {"bookingTarifsCompetitors", "bookingVsCompetitors"}}}

(* ===================== one normalizer call, row by row ================== *)
Collections ==
  {"planningTarifs", "disponibilites", "bookingApercu", "bookingTarifsMarket",
   "bookingTarifsCompetitors", "bookingVsMarket", "bookingVsCompetitors",
   "bookingExport", "events"}
\* the years the clock of the process may show
ClockYears == {2025, 2026}

\* the cells the rows of the explored sheets are made of
Blank == TextCell(<<" ">>)
Abc == TextCell(<<"a", "b", "c">>)
DayText == TextCell(<<"1", "5", "/", "0", "3", "/", "2", "0", "2", "5">>)
Los == TextCell(<<"L", "O", "S", " ", "2">>)
Note == TextCell(<<"s", "e", "e", " ", "n", "o", "t", "e">>)
Decimal == TextCell(<<"1", "2", ",", "5">>)
Twelve == NumCell(12)

\* rows 1 to 5 of the sheet Tarifs: G3, a labelled stamp in row 2, the header row
TopRows(g3, label, stamp, header) ==
  [r \in 1..5 |->
     CASE r = 2 -> <<label, stamp>>
       [] r = 3 -> <<NullCell, NullCell, NullCell, NullCell, NullCell, NullCell, g3>>
       [] r = 5 -> <<NullCell>> \o header
       [] OTHER -> <<>>]
NoTop == [r \in 1..5 |-> <<>>]
StampNoYear == TextCell(<<"1", "2", "/", "0", "3", " ", "1", "4", ":", "3", "0">>)
StampLabel == TextCell(<<"M", "i", "s", " ", "a", " ", "j", "o", "u", "r">>)

Worksheet(kind, header, top) == [kind |-> kind, header |-> header, top |-> top]
ExportHeader(third, last) ==
  <<TextCell(<<"D", "a", "t", "e", " ", "d", "'", "a", "r", "r", "i", "v", "e", "e">>), TextCell(<<"M", "o", "n", "t", "a", "n", "t", " ", "t", "o", "t", "a", "l">>), TextCell(third),
    TextCell(last)>>
EventsHeader == <<TextCell(<<"E", "v", "e", "n", "e", "m", "e", "n", "t">>), TextCell(<<"D", "e", "b", "u", "t">>), TextCell(MultiplicateurKey)>>
ApercuHeader ==
  <<TextCell(DateKey), TextCell(VotreHotelKey), TextCell(DemandeKey),
    TextCell(<<"T", "a", "r", "i", "f", " ", "l", "e", " ", "p", "l", "u", "s", " ", "b", "a", "s">>)>>
TarifsHeader == <<TextCell(DateKey), TextCell(DemandeKey), TextCell(<<"C", "o", "m", "p", " ", "A">>)>>
\* the sheet of the worked example: Jour, Date, Demande du marche, Hotel Y
ExampleHeader ==
  <<TextCell(JourKey), TextCell(DateKey), TextCell(DemandeKey), TextCell(<<"H", "o", "t", "e", "l", " ", "Y">>)>>
\* the same columns, a column with a blank header cell standing before the last
GapHeader ==
  <<TextCell(JourKey), TextCell(DateKey), TextCell(DemandeKey), NullCell,
    TextCell(<<"H", "o", "t", "e", "l", " ", "Y">>)>>
VsHeader ==
  <<TextCell(DateKey), TextCell(DemandeKey), NullCell, TextCell(<<"C", "o", "m", "p", " ", "A">>), NullCell>>
LowestTops ==
  {TopRows(StampNoYear, NullCell, NullCell, TarifsHeader),
   TopRows(NullCell, StampLabel, DayText, TarifsHeader)}
Worksheets ==
  {Worksheet("planning", <<DayText, h>>, NoTop) : h \in {NumCell(45732), Abc}}
    \cup {Worksheet("events", EventsHeader, NoTop)}
    \cup {Worksheet("export", ExportHeader(third, last), NoTop) :
            third \in {<<"N", "u", "i", "t", "s">>},
            last \in {<<"C", "o", "m", "m", "e", "n", "t", "a", "i", "r", "e">>, HotelFkKey}}
    \cup {Worksheet("export", ExportHeader(<<"C", "o", "m", "m", "e", "n", "t", "a", "i", "r", "e">>,
                                           <<"C", "o", "m", "m", "e", "n", "t", "a", "i", "r", "e">>), NoTop)}
    \cup {Worksheet("apercu", ApercuHeader, TopRows(StampNoYear, NullCell, NullCell, TarifsHeader))}
    \cup {Worksheet("tarifs", TarifsHeader, t) : t \in LowestTops}
    \cup {Worksheet("tarifs", h, TopRows(StampNoYear, NullCell, NullCell, h)) :
            h \in {ExampleHeader, GapHeader}}
    \cup {Worksheet("vs. Hier", VsHeader, TopRows(StampNoYear, NullCell, NullCell, TarifsHeader)),
          Worksheet("vs. 7 jours", VsHeader, TopRows(NullCell, StampLabel, DayText, TarifsHeader))}
\* the calls explored: a hotel reference and the zone of the process
Callers == {<<TextCell(<<"h", "1">>), 0>>, <<TextCell(<<"h", "2">>), -5>>}

\* the rows a sheet of each kind may hold below its header: rows of null cells and
\* of blank texts, and rows made of the cells above
BlankRows(width) == {[i \in 1..width |-> NullCell], [i \in 1..width |-> Blank]}
PlanningRows ==
  BlankRows(5) \cup {<<NullCell, TextCell(<<"B", "A", "R">>), TextCell(<<"P", "r", "i", "c", "e">>), Decimal, Twelve>>}
    \cup {<<room, NullCell, TextCell(<<"P", "r", "i", "c", "e">>), NumCell(3), Twelve>> :
            room \in {TextCell(<<" ", "S", "u", "i", "t", "e", " ">>), NumCell(0)}}
    \cup {<<room, NullCell, metric, c1, Twelve>> :
            room \in {NullCell, TextCell(<<"D", "o", "u", "b", "l", "e">>)},
            metric \in {NullCell, TextCell(<<"L", "e", "f", "t", " ", " ", "f", "o", "r", " ", "S", "a", "l", "e">>), TextCell(<<"P", "r", "i", "c", "e">>), TextCell(<<"O", "t", "h", "e", "r">>)},
            c1 \in {NullCell, NumCell(3), TextCell(<<"X">>), Abc}}
EventsRows ==
  BlankRows(3)
    \cup {<<name, debut, mult>> :
            name \in {NullCell, TextCell(<<"S", "a", "l", "o", "n">>)}, debut \in {NullCell, DayText},
            mult \in {NullCell, Blank, Abc, Twelve, Decimal}}
ExportRows ==
  BlankRows(4)
    \cup {<<arrivee, montant, nuits, last>> :
            arrivee \in {NullCell, DayText}, montant \in {NullCell, Blank, Abc, Twelve},
            nuits \in {NullCell, Abc, Decimal}, last \in {NullCell, TextCell(<<"h", "9">>)}}
ApercuRows ==
  BlankRows(4)
    \cup {<<date, votre, demande, tarif>> :
            date \in {NullCell, DayText, Abc}, votre \in {NullCell, Abc, Los},
            demande \in {Twelve, Note}, tarif \in {NullCell, Los}}
TarifsRows ==
  BlankRows(3)
    \cup {<<date, demande, comp>> :
            date \in {NullCell, DayText, Abc}, demande \in {Abc, Twelve},
            comp \in {NullCell, Blank, Abc, Twelve, Los}}
\* the row of the worked example, and rows with a cell left empty or not numeric
ExampleRows ==
  {<<TextCell(<<"L", "u", "n">>), TextCell(<<"2", "0", "2", "6", "-", "0", "1", "-", "1", "6">>), TextCell(<<"1", " ", "2", "3", "4", ",", "5", "0">>), TextCell(<<"9", "9", ",", "9", "0">>)>>,
   <<NullCell, DayText, Twelve, NullCell>>,
   <<TextCell(<<"L", "u", "n">>), DayText, Abc, Abc>>}
\* the rows below a header of the sheet Tarifs: one cell for each of its columns
TarifsRowsOf(header) ==
  CASE header = ExampleHeader -> ExampleRows
    [] header = GapHeader ->
         {<<r[1], r[2], r[3], x, r[4]>> : r \in ExampleRows, x \in {NullCell, Twelve}}
    [] OTHER -> TarifsRows
VsRows ==
  BlankRows(5)
    \cup {<<date, Twelve, deltaDemande, comp, deltaComp>> :
            date \in {NullCell, DayText}, deltaDemande \in {NullCell, Abc},
            comp \in {NullCell, Abc, Twelve}, deltaComp \in {NullCell, Note, Decimal}}

\* const dateMiseAJour (part_004:192-195)
DateMiseAJour == TextOut(parseUpdateDateFromSheet(sheet.top, clockYear))

OrchIdle ==
  /\ InitRun
  /\ pc = [r \in Runs |-> "off"]
  /\ rowBound = MaxRows
  /\ config = [r \in Runs |-> CHOOSE c \in SingleConfigs : c.template = "planning"
                                 /\ c.batchSize = 1 /\ c.threshold = <<0, 1>>]
\* a normalizer is called on a sheet (the state before its loop over the rows)
InitNorm ==
  /\ OrchIdle
  /\ sheet \in Worksheets
  /\ \E c \in Callers : hotelRef = c[1] /\ dateZone = c[2]
  /\ clockYear = 2025
  /\ rowIndex = 0 /\ lastRow = <<>> /\ lastOut = <<>>
  /\ emitted = [c \in Collections |-> 0]
  /\ rowsSkipped = 0 /\ rowsCoerced = 0
  /\ currentRoomType = <<>> /\ competitors = {} /\ callsMade = 0
  /\ dateArg = <<>> /\ dateResult = <<>> /\ splitResult = <<>>
  /\ numArg = <<>> /\ numResult = <<>>

CountOf(out, c) == Len(SelectSeq(out, LAMBDA p : p.coll = c))
\* the loop body has run on row: rows pushed, counters moved, next row
Scanned(row, o) ==
  /\ rowIndex < MaxSheetRows
  /\ rowIndex' = rowIndex + 1
  /\ lastRow' = row
  /\ lastOut' = o.out
  /\ emitted' = [c \in Collections |-> emitted[c] + CountOf(o.out, c)]
  /\ rowsSkipped' = rowsSkipped + o.skipped
  /\ rowsCoerced' = rowsCoerced + o.coerced
  /\ competitors' = competitors \cup CompetitorsOf(o.out)
  /\ UNCHANGED <<sheet, hotelRef, clockYear, callsMade, dateVars, orchVars>>

planningScan ==
  /\ sheet.kind = "planning"
  /\ \E row \in PlanningRows :
       LET res == planningRow(sheet.header, SubSeq(row, 1, 3), SubSeq(row, 4, Len(row)),
                              currentRoomType, hotelRef, dateZone)
       IN Scanned(row, res.outcome) /\ currentRoomType' = res.roomType

eventsScan ==
  /\ sheet.kind = "events"
  /\ \E row \in EventsRows :
       Scanned(row, eventsRow(HeaderTexts(readRowValues(sheet.header, findLastColumn(sheet.header))),
                              readRowValues(row, findLastColumn(sheet.header)),
                              hotelRef, dateZone))
  /\ UNCHANGED currentRoomType

bookingExportScan ==
  /\ sheet.kind = "export"
  /\ \E row \in ExportRows :
       Scanned(row, bookingExportRow(
                      HeaderTexts(readRowValues(sheet.header, findLastColumn(sheet.header))),
                      readRowValues(row, findLastColumn(sheet.header)), hotelRef, dateZone))
  /\ UNCHANGED currentRoomType

apercuScan ==
  /\ sheet.kind = "apercu"
  /\ \E row \in ApercuRows :
       LET headers == extractHeaders(sheet.header, FALSE)
       IN Scanned(row, apercuRow(headers, readRowValues(row, Len(headers)), hotelRef,
                                 DateMiseAJour, dateZone))
  /\ UNCHANGED currentRoomType

tarifsScan ==
  /\ sheet.kind = "tarifs"
  /\ \E row \in TarifsRowsOf(sheet.header) :
       LET headers == extractHeaders(sheet.header, FALSE)
       IN Scanned(row, tarifsRow(headers, readRowValues(row, Len(headers)), hotelRef,
                                 DateMiseAJour, dateZone))
  /\ UNCHANGED currentRoomType

\* the sheets bookingLowestNormalizer reads
LowestSheets == {"apercu", "tarifs", "vs. Hier", "vs. 3 jours", "vs. 7 jours"}
\* vsSheets (lines 319-323)
Horizon(name) ==
  CASE name = "vs. Hier" -> TextCell(<<"h", "i", "e", "r">>)
    [] name = "vs. 3 jours" -> TextCell(<<"3", "j">>)
    [] name = "vs. 7 jours" -> TextCell(<<"7", "j">>)
vsScan ==
  /\ sheet.kind \in {"vs. Hier", "vs. 3 jours", "vs. 7 jours"}
  /\ \E row \in VsRows :
       LET headers == extractHeaders(sheet.header, TRUE)
       IN Scanned(row, vsRow(reconstructedHeaders(headers, <<>>),
                             readRowValues(row, Len(headers)), hotelRef, DateMiseAJour,
                             Horizon(sheet.kind), dateZone))
  /\ UNCHANGED currentRoomType

NextNorm ==
  \/ planningScan
  \/ eventsScan
  \/ bookingExportScan
  \/ apercuScan
  \/ tarifsScan
  \/ vsScan

SpecNorm == InitNorm /\ [][NextNorm]_vars

(* ============== calls of a normalizer on the same file ================= *)
\* the data rows a sheet may hold
FileRows(kind, header) ==
  CASE kind = "planning" -> PlanningRows
    [] kind = "events" -> EventsRows
    [] kind = "export" -> ExportRows
    [] kind = "apercu" -> ApercuRows
    [] kind = "tarifs" -> TarifsRowsOf(header)
    [] OTHER -> VsRows
\* a file of one data row, lastRow, before any call; the clock shows some year
InitTwice ==
  /\ OrchIdle
  /\ sheet \in Worksheets
  /\ \E c \in Callers : hotelRef = c[1] /\ dateZone = c[2]
  /\ clockYear \in ClockYears
  /\ rowIndex = 0 /\ lastRow \in FileRows(sheet.kind, sheet.header) /\ lastOut = <<>>
  /\ emitted = [c \in Collections |-> 0]
  /\ rowsSkipped = 0 /\ rowsCoerced = 0
  /\ currentRoomType = <<>> /\ competitors = {} /\ callsMade = 0
  /\ dateArg = <<>> /\ dateResult = <<>> /\ splitResult = <<>>
  /\ numArg = <<>> /\ numResult = <<>>

\* a call made in a year has returned: its collections, counters and competitors
Called(o, year) ==
  /\ callsMade < MaxCalls
  /\ callsMade' = callsMade + 1
  /\ clockYear' = year
  /\ rowIndex' = 1
  /\ lastOut' = o.out
  /\ emitted' = [c \in Collections |-> CountOf(o.out, c)]
  /\ rowsSkipped' = o.skipped
  /\ rowsCoerced' = o.coerced
  /\ competitors' = CompetitorsOf(o.out)
  /\ UNCHANGED <<sheet, hotelRef, lastRow, dateVars, orchVars>>

planningCall ==
  /\ sheet.kind = "planning"
  /\ \E year \in ClockYears :
       /\ Called(planningRow(sheet.header, SubSeq(lastRow, 1, 3),
                             SubSeq(lastRow, 4, Len(lastRow)), <<>>, hotelRef,
                             dateZone).outcome, year)
       /\ currentRoomType' = RoomTypeAfter(lastRow[1], <<>>)

eventsCall ==
  /\ sheet.kind = "events"
  /\ \E year \in ClockYears :
       Called(eventsRow(HeaderTexts(readRowValues(sheet.header, findLastColumn(sheet.header))),
                        readRowValues(lastRow, findLastColumn(sheet.header)),
                        hotelRef, dateZone), year)
  /\ UNCHANGED currentRoomType

bookingExportCall ==
  /\ sheet.kind = "export"
  /\ \E year \in ClockYears :
       Called(bookingExportRow(
                HeaderTexts(readRowValues(sheet.header, findLastColumn(sheet.header))),
                readRowValues(lastRow, findLastColumn(sheet.header)), hotelRef, dateZone),
              year)
  /\ UNCHANGED currentRoomType

\* the rows bookingLowestNormalizer returns for the sheet, fallbackYear being year
LowestOutcome(headers, dateMiseAJour) ==
  CASE sheet.kind = "apercu" ->
         apercuRow(headers, readRowValues(lastRow, Len(headers)), hotelRef,
                   dateMiseAJour, dateZone)
    [] sheet.kind = "tarifs" ->
         tarifsRow(headers, readRowValues(lastRow, Len(headers)), hotelRef,
                   dateMiseAJour, dateZone)
    [] OTHER ->
         vsRow(reconstructedHeaders(headers, <<>>), readRowValues(lastRow, Len(headers)),
               hotelRef, dateMiseAJour, Horizon(sheet.kind), dateZone)
bookingLowestCall ==
  /\ sheet.kind \in LowestSheets
  /\ \E year \in ClockYears :
       Called(LowestOutcome(extractHeaders(sheet.header, sheet.kind \notin {"apercu", "tarifs"}),
                            TextOut(parseUpdateDateFromSheet(sheet.top, year))), year)
  /\ UNCHANGED currentRoomType

NextTwice ==
  \/ planningCall
  \/ eventsCall
  \/ bookingExportCall
  \/ bookingLowestCall

SpecTwice == InitTwice /\ [][NextTwice]_vars

(* ======================= one call of normalizeDate ====================== *)
\* the days explored, and the UTC offsets of the zones the process may run in
Days ==
  {[year |-> 2025, month |-> 3, day |-> 15], [year |-> 2025, month |-> 4, day |-> 3],
   [year |-> 2024, month |-> 2, day |-> 29], [year |-> 1999, month |-> 12, day |-> 31],
   [year |-> 2025, month |-> 1, day |-> 1], [year |-> 2031, month |-> 11, day |-> 2]}
Zones == {-5, 0, 2}
\* the representations of a day that a cell may hold
NativeDate(c) == DateCell(DaysFromCivil(c.year, c.month, c.day))
Serial(c) == NumCell(DaysFromCivil(c.year, c.month, c.day) - ExcelEpochDay)
LongYearText(c) == TextCell(Pad(c.day, 2) \o <<"/">> \o Pad(c.month, 2) \o <<"/">> \o Pad(c.year, 4))
ShortYearText(c) ==
  TextCell(Pad(c.day, 2) \o <<"/">> \o Pad(c.month, 2) \o <<"/">> \o Pad(c.year % 100, 2))
ISOText(c) == TextCell(ToISODate(c.year, c.month, c.day))
Representations(c) ==
  {NativeDate(c), Serial(c), LongYearText(c), ShortYearText(c), ISOText(c)}
\* values that are no date
Unparseable ==
  {Abc, Los, TextCell(<<"3", "2", "/", "0", "1", "/", "2", "0", "2", "5">>), TextCell(<<"1", "5", "/", "1", "3", "/", "2", "0", "2", "5">>), TextCell(<<"2", "0", "2", "5", "-", "0", "2", "-", "3", "0">>),
   TextCell(<<"1", "5", ".", "0", "3", ".", "2", "0", "2", "5">>), TextCell(<<" ">>)}

\* a day written day-first and followed by a time of day
StampedText(c) == TextCell(LongYearText(c).s \o <<" ", "0", "9", ":", "0", "5">>)
InitDate ==
  /\ OrchIdle /\ NormIdle
  /\ dateArg \in UNION {Representations(c) \cup {StampedText(c)} : c \in Days}
                   \cup Unparseable
  /\ dateZone \in Zones
  /\ dateResult = <<>> /\ splitResult = <<>>
  /\ numArg = <<>> /\ numResult = <<>>

\* normalizeDate(dateArg) returns
normalizeDateCall ==
  /\ dateResult = <<>>
  /\ dateResult' = <<normalizeDate(dateArg, dateZone)>>
  /\ UNCHANGED <<dateArg, dateZone, splitResult, numArg, numResult, normVars, orchVars>>

\* splitDateTime(dateArg) returns
splitDateTimeCall ==
  /\ splitResult = <<>>
  /\ splitResult' = <<splitDateTime(dateArg, dateZone)>>
  /\ UNCHANGED <<dateArg, dateZone, dateResult, numArg, numResult, normVars, orchVars>>

NextDate ==
  \/ normalizeDateCall
  \/ splitDateTimeCall

SpecDate == InitDate /\ [][NextDate]_vars


(* ======================== one call of parseNumeric ====================== *)
\* the digits of the whole part and of the decimal part of the numbers explored
Wholes == {<<"0">>, <<"1", "2">>, <<"9", "9", "9">>, <<"1", "2", "3", "4">>, <<"9", "8", "7", "6", "5">>, <<"1", "2", "3", "4", "5", "6", "7">>}
Fracs == {<<>>, <<"5">>, <<"5", "6">>, <<"5", "0">>}
\* the digits of a whole part in groups of three, sep between the groups
RECURSIVE Grouped(_, _)
Grouped(whole, sep) ==
  IF Len(whole) <= 3 THEN whole
  ELSE Grouped(SubSeq(whole, 1, Len(whole) - 3), sep) \o sep
         \o SubSeq(whole, Len(whole) - 2, Len(whole))
\* a number written with a grouping separator and a decimal separator
Written(whole, frac, grouping, decimal) ==
  Grouped(whole, grouping) \o (IF frac = <<>> THEN <<>> ELSE decimal \o frac)
\* the spellings of a number: English, and French with spaces, with non-breaking
\* spaces or with dots between the groups, bare or with a currency symbol
SpellingKinds == {"en", "en-dollar", "fr-space", "fr-nbsp", "fr-dot", "fr-euro"}
Spelling(kind, whole, frac) ==
  CASE kind = "en" -> Written(whole, frac, <<",">>, <<".">>)
    [] kind = "en-dollar" -> <<"$">> \o Written(whole, frac, <<",">>, <<".">>)
    [] kind = "fr-space" -> Written(whole, frac, <<" ">>, <<",">>)
    [] kind = "fr-nbsp" -> Written(whole, frac, <<Nbsp>>, <<",">>)
    [] kind = "fr-dot" -> Written(whole, frac, <<".">>, <<",">>)
    [] kind = "fr-euro" -> Written(whole, frac, <<Nbsp>>, <<",">>) \o <<Nbsp, "E", "U", "R">>
\* the number the digits stand for
ValueOf(whole, frac) == Reduced(DigitsValue(whole \o frac), PowerOfTen(Len(frac)))
\* texts that are no number
NoNumbers == {<<"a", "b", "c">>, <<"-">>, <<".">>, <<"1", ".", "2", ".", "3">>, <<"1", "2", "-">>, <<" ">>, <<"-", "-", "5">>}

InitNum ==
  /\ OrchIdle /\ NormIdle
  /\ dateArg = <<>> /\ dateZone = 0 /\ dateResult = <<>> /\ splitResult = <<>>
  /\ numArg \in {TextCell(Spelling(k, w, f)) : k \in SpellingKinds, w \in Wholes, f \in Fracs}
                  \cup {TextCell(t) : t \in NoNumbers}
  /\ numResult = <<>>

\* parseNumeric(numArg) returns
parseNumericCall ==
  /\ numResult = <<>>
  /\ numResult' = <<parseNumeric(numArg)>>
  /\ UNCHANGED <<numArg, dateArg, dateZone, dateResult, splitResult, normVars, orchVars>>

NextNum ==
  \/ parseNumericCall

SpecNum == InitNum /\ [][NextNum]_vars


(* ======================= history of one invocation ====================== *)
Ended(r) == pc[r] \in {"returned", "thrown"}
Opened(r) == runId[r] # NoId
Record(r) == importRuns[runId[r]]
Terminal == {"success", "failed"}

IsOutputInsert(req) == req.op = "insert" /\ req.table # "import_runs"
IsUpdate(req) == req.op = "update"
\* the update of the normal path carries the counters, the one of the catch block not
IsNormalClose(req) == IsUpdate(req) /\ "rows_inserted" \in DOMAIN req.payload.meta
IsCatchClose(req) == IsUpdate(req) /\ ~IsNormalClose(req)

LastAnswer(r) == answers[r][Len(answers[r])]

\* rows of run r the store accepted, and rows it rejected
RECURSIVE RowsAnswered(_, _)
RowsAnswered(as, accepted) ==
  IF as = <<>> THEN 0
  ELSE (IF IsOutputInsert(Head(as).req) /\ ((Head(as).outcome = "ok") = accepted)
        THEN Head(as).req.hi - Head(as).req.lo ELSE 0)
       + RowsAnswered(Tail(as), accepted)
AcceptedRows(r) == RowsAnswered(answers[r], TRUE)
RejectedRows(r) == RowsAnswered(answers[r], FALSE)

(* ================================ C1 ==================================== *)
\* C1 as stated: whenever run() has ended and the import-run record had been opened,
\* the record has moved from running to a terminal status exactly once.
C1_ClosedExactlyOnce ==
  \A r \in Runs :
    (Ended(r) /\ Opened(r)) =>
      (Record(r).updates = 1 /\ Record(r).status \in Terminal)

\* C1 amended: when run() has ended with the record opened, the record has moved to
\* a terminal status exactly once, unless the store rejected the update issued by
\* the catch block: then the record is still running, no update was applied to it
\* and run() has thrown the update failure.
C1_ClosedOnceUnlessCatchUpdateRejected ==
  \A r \in Runs :
    (Ended(r) /\ Opened(r)) =>
      \/ Record(r).updates = 1 /\ Record(r).status \in Terminal
      \/ /\ Record(r).updates = 0 /\ Record(r).status = "running"
         /\ pc[r] = "thrown"
         /\ IsCatchClose(LastAnswer(r).req) /\ LastAnswer(r).outcome # "ok"
         /\ thrown[r] = <<"import_runs update failed", LastAnswer(r).outcome>>

\* the closing update of the normal path was rejected after rows were inserted and
\* the catch block then closed the record
C1_Witness ==
  \E r \in Runs :
    /\ Ended(r) /\ Opened(r) /\ Record(r).updates = 1 /\ Record(r).status = "failed"
    /\ AcceptedRows(r) > 0
    /\ \E k \in 1..Len(answers[r]) :
         IsNormalClose(answers[r][k].req) /\ answers[r][k].outcome # "ok"

(* ================================ C2 ==================================== *)
\* C2: every import-run record has status running, success or failed; a record is
\* created as running; a status only changes from running to success or failed; and
\* no update is in flight for a record whose status is already terminal.
C2_RunRecordLifecycle ==
  /\ [](\A i \in DOMAIN importRuns : importRuns[i].status \in {"running"} \cup Terminal)
  /\ [][\A i \in DOMAIN importRuns' :
          IF i \in DOMAIN importRuns
          THEN importRuns'[i].status # importRuns[i].status =>
                 (importRuns[i].status = "running" /\ importRuns'[i].status \in Terminal)
          ELSE importRuns'[i].status = "running"]_vars
  /\ [](\A r \in Runs : \A req \in pending[r] :
          IsUpdate(req) => importRuns[req.lo].status = "running")

\* a record was created and then closed as failed by the error-rate gate
C2_Witness ==
  \E r \in Runs :
    /\ pc[r] = "returned" /\ Record(r).status = "failed" /\ Record(r).updates = 1

(* ================================ C3 ==================================== *)
\* C3: the closing update of the normal path carries status failed exactly when the
\* rows the store rejected, over the rows it accepted or rejected, exceed the
\* configured threshold, and success otherwise; with no row at all the rate is 0
\* and the status is success.
C3_StatusFollowsErrorRate ==
  \A r \in Runs : \A k \in 1..Len(issued[r]) :
    IsNormalClose(issued[r][k]) =>
      LET rej == RejectedRows(r)
          tot == AcceptedRows(r) + RejectedRows(r)
          thr == config[r].threshold
          st == issued[r][k].payload.status
      IN /\ st \in Terminal
         /\ (st = "failed") <=> (tot > 0 /\ rej * thr[2] > thr[1] * tot)
         /\ (tot = 0 => st = "success")
         /\ (Ended(r) /\ pc[r] = "returned" => Record(r).status = st)

\* some batch was rejected, the rate stayed at or below the threshold and the run
\* was closed as success
C3_Witness ==
  \E r \in Runs :
    /\ pc[r] = "returned" /\ RejectedRows(r) > 0 /\ AcceptedRows(r) > 0
    /\ Record(r).status = "success"

(* ================================ C4 ==================================== *)
PastBatches(r) == result[r] # NoResult /\ pc[r] \notin {"batch", "wait_insert"}
BatchSize(r) == config[r].batchSize
Ceil(n, b) == (n + b - 1) \div b
TableIndex(r, t) == CHOOSE c \in 1..Len(TablesOf(config[r].template)) :
                      TablesOf(config[r].template)[c] = t
InsertsIssued(r) == SelectSeq(issued[r], IsOutputInsert)
IsRejectedInsert(a) == IsOutputInsert(a.req) /\ a.outcome # "ok"
\* the error strings the rejected chunks call for, in the order of the rejections
ErrorsCalledFor(r) ==
  LET rej == SelectSeq(answers[r], IsRejectedInsert)
  IN [k \in 1..Len(rej) |-> <<rej[k].req.table, rej[k].outcome>>]
InsertsInto(r, c) ==
  LET Mine(req) == req.table = TablesOf(config[r].template)[c]
  IN SelectSeq(InsertsIssued(r), Mine)

\* C4: a rejected batch adds its row count to rowErrors and exactly one error string
\* (its table and the store's error text) to the error list, never enters the catch
\* block, and once the inserts are over every collection of the template has had
\* every one of its batches issued, whatever was rejected before.
C4_RejectedBatchDoesNotAbort ==
  \A r \in Runs :
    /\ stats[r].errors = ErrorsCalledFor(r)
    /\ stats[r].rowErrors = RejectedRows(r)
    /\ (pc[r] \in {"catch", "wait_catch"} =>
          caught[r][1] \in {"Unknown template", "normalizer", "import_runs update failed"})
    /\ (PastBatches(r) =>
          \A c \in 1..Len(TablesOf(config[r].template)) :
            Len(InsertsInto(r, c)) = Ceil(result[r].sizes[c], BatchSize(r)))

\* a chunk was rejected, a later chunk of the same collection was accepted and a
\* later collection was inserted too
C4_Witness ==
  \E r \in Runs :
    /\ PastBatches(r)
    /\ \E k, j, l \in 1..Len(answers[r]) :
         /\ k < j /\ j < l
         /\ IsRejectedInsert(answers[r][k])
         /\ IsOutputInsert(answers[r][j].req) /\ answers[r][j].outcome = "ok"
         /\ answers[r][j].req.table = answers[r][k].req.table
         /\ IsOutputInsert(answers[r][l].req)
         /\ answers[r][l].req.table # answers[r][k].req.table

(* ================================ C5 ==================================== *)
\* the chunks that partition n rows in order into batches of b
ExpectedChunks(n, b) == [j \in 1..Ceil(n, b) |-> <<(j - 1) * b, Min(j * b, n)>>]
ChunksInto(r, c) ==
  LET q == InsertsInto(r, c) IN [k \in 1..Len(q) |-> <<q[k].lo, q[k].hi>>]
IsPrefix(p, q) == Len(p) <= Len(q) /\ \A k \in 1..Len(p) : p[k] = q[k]
RECURSIVE RowsHandedBefore(_, _)
RowsHandedBefore(r, c) ==
  IF c <= 1 THEN 0 ELSE result[r].sizes[c - 1] + RowsHandedBefore(r, c - 1)
OwnRows(r) == {x \in outputRows : x.owner = r}

\* 1200 rows of table t in batches of 500, the store rejecting the second insert
ScenarioC ==
  BatchInsert("t", 0, 1200, DefaultBatchSize, <<"ok", "E1", "ok", "ok">>, EmptyStats, 0)

\* C5: for n rows and batch size b >= 1 the loop issues exactly ceil(n/b) inserts,
\* whose chunks partition the rows in order (no row is submitted twice, a rejected
\* chunk is not submitted again); rowsInserted is the number of rows the store
\* accepted and holds, rowErrors the number it rejected, and between two chunks
\* their sum is the number of rows handed to batchInsert so far. 1200 rows in
\* batches of 500 with the second rejected: 3 inserts, 700 inserted, 500 errors,
\* failed at threshold 0.05.
C5_BatchesPartitionRows ==
  /\ \A r \in Runs : \A c \in 1..Len(TablesOf(config[r].template)) :
       result[r] # NoResult =>
         /\ IsPrefix(ChunksInto(r, c), ExpectedChunks(result[r].sizes[c], BatchSize(r)))
         /\ (PastBatches(r) \/ coll[r] > c) =>
              ChunksInto(r, c) = ExpectedChunks(result[r].sizes[c], BatchSize(r))
  /\ \A r \in Runs :
       /\ stats[r].rowsInserted = AcceptedRows(r)
       /\ stats[r].rowsInserted = Cardinality(OwnRows(r))
       /\ stats[r].rowErrors = RejectedRows(r)
       /\ (pc[r] = "batch" =>
             stats[r].rowsInserted + stats[r].rowErrors
               = RowsHandedBefore(r, coll[r]) + Min(off[r], result[r].sizes[coll[r]]))
       /\ (PastBatches(r) =>
             stats[r].rowsInserted + stats[r].rowErrors = SumSeq(result[r].sizes))
  /\ ScenarioC.calls = 3 /\ ScenarioC.left = <<"ok">>
  /\ ScenarioC.stats.rowsInserted = 700 /\ ScenarioC.stats.rowErrors = 500
  /\ ScenarioC.stats.errors = << <<"t", "E1">> >>
  /\ ErrorRate(ScenarioC.stats) = <<500, 1200>>
  /\ StatusOf(ErrorRate(ScenarioC.stats), DefaultErrorRateThreshold) = "failed"

\* three rows went out in batches of two, the second batch (one row) was rejected
C5_Witness ==
  \E r \in Runs : \E c \in 1..Len(TablesOf(config[r].template)) :
    /\ PastBatches(r) /\ BatchSize(r) = 2 /\ result[r].sizes[c] = 3
    /\ ChunksInto(r, c) = << <<0, 2>>, <<2, 3>> >>
    /\ stats[r].rowsInserted = 2 /\ stats[r].rowErrors = 1
    /\ pc[r] = "returned" /\ Record(r).status = "failed"

(* ================================ C6 ==================================== *)
Rank(req) ==
  CASE req.op = "upsert" /\ req.table = "hotels" -> 1
    [] req.op = "insert" /\ req.table = "import_runs" -> 2
    [] IsOutputInsert(req) -> 3
    [] req.op = "upsert" /\ req.table = "hotel_competitor_set" -> 4
    [] IsNormalClose(req) -> 5
    [] OTHER -> 6

\* C6: the store operations of one run never overlap and come in one order: hotel
\* upsert, opening of the run record, the inserts collection by collection and chunk
\* by chunk, the competitor upsert (booking_lowest only), the closing update; an
\* operation is issued only when every earlier one has been answered, and an output
\* insert only after the run record was created.
\* (Each operation is compared with the one issued next: the order is transitive.)
C6_StoreCallsInOrder ==
  \A r \in Runs :
    /\ Cardinality(pending[r]) <= 1
    /\ Len(issued[r]) = Len(answers[r]) + Cardinality(pending[r])
    /\ \A k \in 1..Len(answers[r]) : answers[r][k].req = issued[r][k]
    /\ \A k \in 1..Len(issued[r]) :
         /\ (k = 1) <=> (Rank(issued[r][k]) = 1)
         /\ (k = 2) <=> (Rank(issued[r][k]) = 2)
         /\ Rank(issued[r][k]) = 4 => config[r].template = "booking_lowest"
         /\ IsOutputInsert(issued[r][k]) =>
              /\ answers[r][2].outcome = "ok"
              /\ runId[r] \in DOMAIN importRuns
    /\ \A k \in 1..(Len(issued[r]) - 1) :
         LET this == issued[r][k]
             next == issued[r][k + 1]
         IN /\ Rank(this) <= Rank(next)
            /\ Rank(this) = Rank(next) =>
                 /\ Rank(this) = 3
                 /\ \/ TableIndex(r, this.table) < TableIndex(r, next.table)
                    \/ this.table = next.table /\ this.hi <= next.lo

\* a booking_lowest run went through every kind of store operation
C6_Witness ==
  \E r \in Runs :
    /\ pc[r] = "returned"
    /\ \E k, j \in 1..Len(issued[r]) :
         /\ Rank(issued[r][k]) = 3 /\ Rank(issued[r][j]) = 3
         /\ issued[r][k].table # issued[r][j].table
    /\ \E k \in 1..Len(issued[r]) : Rank(issued[r][k]) = 4

(* ================================ C7 ==================================== *)
\* C7: no step of a run removes or changes a row the store holds, and every chunk
\* the store accepted is in the store in every later state.
C7_AcceptedRowsStay ==
  /\ [][outputRows \subseteq outputRows']_vars
  /\ [](\A r \in Runs : \A k \in 1..Len(answers[r]) :
          (IsOutputInsert(answers[r][k].req) /\ answers[r][k].outcome = "ok") =>
            ChunkRows(r, answers[r][k].req.table, answers[r][k].req.lo,
                      answers[r][k].req.hi) \subseteq outputRows)

\* rows were accepted, a later batch of the same table was rejected, the gate closed
\* the run as failed, and the accepted rows are in the store
C7_Witness ==
  \E r \in Runs :
    /\ pc[r] = "returned" /\ Record(r).status = "failed"
    /\ \E k, j \in 1..Len(answers[r]) :
         /\ k < j
         /\ IsOutputInsert(answers[r][k].req) /\ answers[r][k].outcome = "ok"
         /\ IsRejectedInsert(answers[r][j])
         /\ answers[r][j].req.table = answers[r][k].req.table
         /\ ChunkRows(r, answers[r][k].req.table, answers[r][k].req.lo,
                      answers[r][k].req.hi) \subseteq outputRows

(* ================================ C8 ==================================== *)
HotelsWithCode(code) == {h \in hotels : h.hotel_id = code}

\* C8: however invocations for the same business code follow or overlap each other,
\* the store holds one hotel record for the code, every invocation that resolved
\* its hotel holds the id of that record, and every invocation that opened a run
\* record has one of its own.
C8_OneHotelPerCode ==
  /\ \A code \in HotelCodes : Cardinality(HotelsWithCode(code)) <= 1
  /\ \A h1, h2 \in hotels : h1.id = h2.id => h1 = h2
  /\ \A r \in Runs :
       hotelFk[r] # NoId =>
         HotelsWithCode(config[r].hotel_id)
           = {h \in hotels : h.id = hotelFk[r]}
  /\ \A r1, r2 \in Runs :
       (hotelFk[r1] # NoId /\ hotelFk[r2] # NoId) =>
         ((config[r1].hotel_id = config[r2].hotel_id) <=> (hotelFk[r1] = hotelFk[r2]))
  /\ \A r1, r2 \in Runs :
       (Opened(r1) /\ Opened(r2) /\ r1 # r2) => runId[r1] # runId[r2]
  /\ \A r \in Runs :
       Opened(r) => (runId[r] \in DOMAIN importRuns /\ Record(r).hotel_fk = hotelFk[r])
  /\ Len(importRuns) = Cardinality({r \in Runs : Opened(r)})

\* two invocations for the same code, with different names, both resolved the
\* hotel to the same id and both opened their run record
C8_Witness ==
  \E r1, r2 \in Runs :
    /\ r1 # r2 /\ config[r1].hotel_id = config[r2].hotel_id
    /\ config[r1].hotel_name # config[r2].hotel_name
    /\ Opened(r1) /\ Opened(r2)
    /\ answers[r1][1].outcome = "ok" /\ answers[r2][1].outcome = "ok"
    /\ hotelFk[r1] = hotelFk[r2]

(* ================================ C9 ==================================== *)
HotelUpsertFailed(r) == Len(answers[r]) >= 1 /\ answers[r][1].outcome # "ok"

\* C9: when the hotel upsert is answered with an error, run() throws at once: no
\* import-run record is created, no normalizer is invoked, no further store
\* operation is issued, no output row or competitor label is written, and the
\* process exits with code 1.
C9_HotelUpsertFailureAborts ==
  \A r \in Runs :
    HotelUpsertFailed(r) =>
      /\ pc[r] = "thrown" /\ exitCode[r] = 1
      /\ thrown[r] = <<"Hotel upsert failed", answers[r][1].outcome>>
      /\ hotelFk[r] = NoId /\ ~Opened(r)
      /\ Len(importRuns) = Cardinality({q \in Runs : Opened(q)})
      /\ normalizerCalls[r] = 0
      /\ Len(issued[r]) = 1 /\ pending[r] = {}
      /\ OwnRows(r) = {}
      /\ competitorSet = {}
      /\ printed[r] = <<>>

\* the hotel upsert of an invocation was rejected
C9_Witness ==
  \E r \in Runs : HotelUpsertFailed(r) /\ pc[r] = "thrown" /\ hotels = {}

(* ================================ C10 =================================== *)
UnknownTemplateError(r) == <<"Unknown template", config[r].template>>
HasUnknownTemplate(r) == config[r].template \notin KnownTemplates

\* C10 as stated: for an unknown template no normalizer runs and no output table is
\* written; when run() has ended with the record opened, the record is closed as
\* failed with the message naming the template and that error was re-raised.
C10_UnknownTemplateRecordedAndRethrown ==
  \A r \in Runs :
    HasUnknownTemplate(r) =>
      /\ normalizerCalls[r] = 0
      /\ OwnRows(r) = {}
      /\ \A k \in 1..Len(issued[r]) : ~IsOutputInsert(issued[r][k])
      /\ (Ended(r) /\ Opened(r)) =>
           /\ Record(r).status = "failed"
           /\ Record(r).error_message = <<UnknownTemplateError(r)>>
           /\ thrown[r] = UnknownTemplateError(r)

\* C10 amended: for an unknown template no normalizer runs, no output table and no
\* competitor label is written, and the only update issued is the one of the catch
\* block, with status failed and the message naming the template; when the store
\* accepts it the record is closed as failed with that message and the
\* unknown-template error is re-raised; when the store rejects it the record stays
\* running and the update failure is raised in its place; the process exits with
\* code 1 either way.
C10_UnknownTemplateClosedWhenStoreAccepts ==
  \A r \in Runs :
    HasUnknownTemplate(r) =>
      /\ normalizerCalls[r] = 0
      /\ OwnRows(r) = {}
      /\ competitorSet = {}
      /\ \A k \in 1..Len(issued[r]) :
           /\ ~IsOutputInsert(issued[r][k])
           /\ IsUpdate(issued[r][k]) =>
                /\ k = 3
                /\ issued[r][k].payload = CatchPayload(UnknownTemplateError(r))
      /\ (Ended(r) /\ Opened(r)) =>
           /\ Len(issued[r]) = 3 /\ exitCode[r] = 1 /\ pc[r] = "thrown"
           /\ printed[r] = <<>>
           /\ IF LastAnswer(r).outcome = "ok"
              THEN /\ Record(r).status = "failed"
                   /\ Record(r).error_message = <<UnknownTemplateError(r)>>
                   /\ thrown[r] = UnknownTemplateError(r)
              ELSE /\ Record(r).status = "running"
                   /\ thrown[r] = <<"import_runs update failed", LastAnswer(r).outcome>>

\* an invocation with an unknown template ended with its record closed as failed
C10_Witness ==
  \E r \in Runs :
    /\ HasUnknownTemplate(r) /\ Opened(r) /\ pc[r] = "thrown"
    /\ Record(r).status = "failed"
    /\ Record(r).error_message = <<UnknownTemplateError(r)>>
    /\ thrown[r] = UnknownTemplateError(r)
(* ================================ C11 =================================== *)
CatchEntered(r) == caught[r] # NoError
NormalCloseIssued(r) == \E k \in 1..Len(issued[r]) : IsNormalClose(issued[r][k])
NormalCloseAccepted(r) ==
  \E k \in 1..Len(answers[r]) :
    IsNormalClose(answers[r][k].req) /\ answers[r][k].outcome = "ok"
CreateImportRunFailed(r) ==
  \E k \in 1..Len(answers[r]) :
    /\ answers[r][k].req.op = "insert" /\ answers[r][k].req.table = "import_runs"
    /\ answers[r][k].outcome # "ok"

\* C11 as stated: an ended process has a non-zero outcome exactly when the catch
\* block of run() caught an exception and re-raised it, and a run that issued the
\* closing update of the normal path ends with outcome zero.
C11_NonZeroIffCatchBlockReraised ==
  \A r \in Runs :
    Ended(r) =>
      /\ (exitCode[r] # 0) <=> (CatchEntered(r) /\ thrown[r] = caught[r])
      /\ NormalCloseIssued(r) => exitCode[r] = 0

\* C11 amended: an ended process has outcome 1 exactly when run() rejected, which
\* is when the hotel upsert or the creation of the run record failed before the
\* try block, or the catch block was entered (the closing update of the normal
\* path refused by the store included); it has outcome 0 exactly when the store
\* accepted the closing update of the normal path, whatever status the error-rate
\* gate assigned; and no outcome is set while run() is executing.
C11_NonZeroIffRunRejected ==
  \A r \in Runs :
    /\ Ended(r) =>
         /\ exitCode[r] \in {0, 1}
         /\ (exitCode[r] = 1) <=>
              (HotelUpsertFailed(r) \/ CreateImportRunFailed(r) \/ CatchEntered(r))
         /\ (exitCode[r] = 0) <=> NormalCloseAccepted(r)
         /\ (exitCode[r] = 1) <=> (thrown[r] # NoError)
    /\ ~Ended(r) => (pc[r] = "off" \/ exitCode[r] = -1)

\* a run whose error-rate gate assigned failed ended with outcome zero
C11_Witness ==
  \E r \in Runs :
    /\ pc[r] = "returned" /\ exitCode[r] = 0
    /\ Record(r).status = "failed" /\ RejectedRows(r) > 0

(* ================================ C12 =================================== *)
SummaryFields ==
  {"status", "rows_inserted", "rows_skipped", "rows_coerced", "row_errors", "error_rate"}

\* the printed summary s has the six fields and repeats the record of run r
SummaryMatchesRecord(s, r) ==
  /\ DOMAIN s = SummaryFields
  /\ s.status = Record(r).status
  /\ \A f \in SummaryFields \ {"status"} : s[f] = Record(r).meta[f]

\* C12 as stated: every run that has ended has printed the summary exactly once,
\* with the status and the counts of its closed import-run record.
C12_SummaryPrintedOncePerRun ==
  \A r \in Runs :
    Ended(r) => (Len(printed[r]) = 1 /\ SummaryMatchesRecord(printed[r][1], r))

\* C12 amended: a run prints the summary at most once, as the step that makes
\* run() return; a run that has returned has printed it exactly once, with the six
\* fields equal to the status and the counts written to its closed record; a run
\* that ended by an exception has printed no summary.
C12_SummaryPrintedOnceOnNormalReturn ==
  /\ [](\A r \in Runs :
          /\ Len(printed[r]) <= 1
          /\ (Len(printed[r]) = 1) <=> (pc[r] = "returned")
          /\ pc[r] = "returned" =>
               /\ SummaryMatchesRecord(printed[r][1], r)
               /\ Record(r).finished
               /\ printed[r][1].rows_inserted = AcceptedRows(r)
               /\ printed[r][1].row_errors = RejectedRows(r))
  /\ [][\A r \in Runs :
          printed'[r] # printed[r] =>
            (printed[r] = <<>> /\ pc[r] = "wait_close" /\ pc'[r] = "returned")]_vars

\* a run printed a summary of status failed that counts accepted, rejected, skipped
\* and coerced rows
C12_Witness ==
  \E r \in Runs :
    /\ pc[r] = "returned" /\ Len(printed[r]) = 1
    /\ printed[r][1].status = "failed"
    /\ printed[r][1].rows_inserted > 0 /\ printed[r][1].row_errors > 0
    /\ printed[r][1].rows_skipped > 0 /\ printed[r][1].rows_coerced > 0

(* ================================ C13 =================================== *)
MetaFields ==
  {"rows_inserted", "rows_skipped", "rows_coerced", "row_errors", "error_rate", "errors"}

\* C13: every update that closed the run record, on the normal path or in the catch
\* block, carries the finish timestamp, a terminal status, the error messages and
\* the full metadata bag, whose inserted and row-error counts are the numbers of
\* rows the store accepted and rejected during the run.
C13_CloseCarriesFullMetadata ==
  \A r \in Runs : \A k \in 1..Len(answers[r]) :
    LET a == answers[r][k] IN
      (IsUpdate(a.req) /\ a.outcome = "ok") =>
        /\ a.req.payload.finished
        /\ a.req.payload.status \in Terminal
        /\ DOMAIN a.req.payload.meta = MetaFields
        /\ a.req.payload.meta.rows_inserted = AcceptedRows(r)
        /\ a.req.payload.meta.row_errors = RejectedRows(r)

(* ==================== C14: row accounting of a call ===================== *)
\* the rows emitted so far across all the collections of the call
EmittedRows ==
  emitted["planningTarifs"] + emitted["disponibilites"] + emitted["bookingApercu"]
    + emitted["bookingTarifsMarket"] + emitted["bookingTarifsCompetitors"]
    + emitted["bookingVsMarket"] + emitted["bookingVsCompetitors"]
    + emitted["bookingExport"] + emitted["events"]
\* the rows emitted so far, one per sheet row, by the booking-comparison normalizer
MarketRows ==
  emitted["bookingApercu"] + emitted["bookingTarifsMarket"] + emitted["bookingVsMarket"]

CellsRead(kind, header, row) ==
  IF kind = "planning"
  THEN SubSeq(row, 1, 3) \o readRowValues(SubSeq(row, 4, Len(row)), findLastColumn(header))
  ELSE readRowValues(row, findLastColumn(header))
\* the step scans a row whose cells are all blank
ScansBlankRow ==
  rowIndex' = rowIndex + 1 /\ isRowEmpty(CellsRead(sheet.kind, sheet.header, lastRow'))

\* C15: in every normalizer a wholly blank data row adds exactly one to rowsSkipped
\* and adds no row to any output collection
C15_BlankRowSkippedOnce ==
  [][ScansBlankRow => (rowsSkipped' = rowsSkipped + 1 /\ emitted' = emitted)]_vars

(* ================= C16: cells that fail numeric parsing ================= *)
\* the cells under the dates of the header of a planning sheet, a null cell for
\* each of the others
UnderDates(dates, cells) ==
  [i \in 1..Len(dates) |-> IF dates[i] = NullDate THEN NullCell ELSE cells[i + 3]]
\* the cells of a scanned row that went into a numeric field of a row it emitted:
\* the cells under a date of a planning row, the multiplier of an event, the
\* amount and the nights of an export row, the rates and demands of a
\* booking-comparison row
NumericCells(kind, cells, dates, out) ==
  IF out = <<>> THEN <<>>
  ELSE CASE kind = "planning" -> UnderDates(dates, cells)
         [] kind \in {"events", "export", "tarifs"} -> SubSeq(cells, 2, 3)
         [] OTHER -> SubSeq(cells, 2, 4)
\* the dates of the header of the sheet
HeaderDates ==
  DatesOf(readRowValues(sheet.header, findLastColumn(sheet.header)), dateZone)

\* C16: in every normalizer each non-blank cell of a numeric field that fails
\* numeric parsing adds exactly one to rowsCoerced, and a blank cell or a cell that
\* parses adds nothing
C16_FailingCellCoercedOnce ==
  [][rowIndex' = rowIndex + 1
       => rowsCoerced' = rowsCoerced
            + CountFailing(NumericCells(sheet.kind,
                                        CellsRead(sheet.kind, sheet.header, lastRow'),
                                        HeaderDates, lastOut'))]_vars

(* ========================= C17: annotation rows ========================= *)
\* one of the cells is a text that matches the annotation pattern
HoldsAnnotation(cells) ==
  \E i \in 1..Len(cells) : cells[i].t = "text" /\ MatchesAnnotation(cells[i].s)
\* the step scans a row of a booking-comparison sheet that holds an annotation
ScansAnnotationRow ==
  /\ sheet.kind \in LowestSheets
  /\ rowIndex' = rowIndex + 1
  /\ HoldsAnnotation(CellsRead(sheet.kind, sheet.header, lastRow'))

\* C17: in the five sheets of the booking-comparison normalizer a data row in which
\* any cell holds a text matching the annotation pattern is counted in rowsSkipped
\* and adds no row to any output collection, whatever its date cell holds
C17_AnnotationRowSkipped ==
  [][ScansAnnotationRow => (rowsSkipped' = rowsSkipped + 1 /\ emitted' = emitted)]_vars

(* ===================== C18: the hotel reference ========================= *)
\* the value of the key hotel_fk of an emitted row
HotelFkOf(p) == IF p.coll = "bookingExport" THEN p.row[HotelFkKey] ELSE p.row.hotel_fk

\* C18: every row emitted by any normalizer, in every output collection, carries
\* hotel_fk equal to the hotel reference passed to the normalizer, whatever the
\* header labels and the cells of the sheet are
C18_EveryRowCarriesHotelRef ==
  \A i \in 1..Len(lastOut) : HotelFkOf(lastOut[i]) = hotelRef

(* ===================== C19: calls on the same file ====================== *)
\* a call follows an earlier call on the same file with the same hotel reference
SecondCall == callsMade >= 1 /\ callsMade' = callsMade + 1

\* C19: two calls of a normalizer on the same file with the same hotel reference
\* return the same row collections, competitor set, update timestamp and counters,
\* whenever they are made
C19_CallsReturnTheSame ==
  [][SecondCall =>
       /\ lastOut' = lastOut /\ emitted' = emitted
       /\ competitors' = competitors
       /\ rowsSkipped' = rowsSkipped /\ rowsCoerced' = rowsCoerced
       /\ parseUpdateDateFromSheet(sheet.top, clockYear')
            = parseUpdateDateFromSheet(sheet.top, clockYear)]_vars

(* ================= C20: representations of the same day ================= *)
\* C20: normalizeDate returns the same ISO calendar date for every supported
\* representation of a day (native date, serial, DD/MM/YYYY, DD/MM/YY, ISO text),
\* reading the text day-first, and returns null for a value that is no date
C20_SameDateForEveryRepresentation ==
  dateResult # <<>> =>
    /\ \A c \in Days :
         dateArg \in Representations(c) =>
           dateResult[1] = ToISODate(c.year, c.month, c.day)
    /\ dateArg \in Unparseable => dateResult[1] = NullDate

(* ================= C21: separators in a written number ================== *)
\* how many grouping separators the whole part is written with
Groups(whole) == (Len(whole) - 1) \div 3
\* the number of the explored ones that numArg spells in a kind of spelling
Spells(kind, whole, frac) == numArg = TextCell(Spelling(kind, whole, frac))

\* C21 as stated: every spelling of a number, in either locale, is parsed to that
\* number, and the result is a number or null
C21_BothLocalesSameNumber ==
  numResult # <<>> =>
    \A k \in SpellingKinds, w \in Wholes, f \in Fracs :
      Spells(k, w, f) => numResult[1] = ValueOf(w, f)

\* C21: every spelling of a number written with a decimal part, and every spelling
\* whose whole part is written without comma and dot, is parsed to that number; a
\* whole number written with commas between its groups is parsed with its first
\* comma as the decimal point, one written with one dot as a decimal, and one
\* written with several dots to null
C21_SameNumberWithDecimalPart ==
  numResult # <<>> =>
    \A k \in SpellingKinds, w \in Wholes, f \in Fracs :
      Spells(k, w, f) =>
        IF f # <<>> \/ Groups(w) = 0 \/ k \in {"fr-space", "fr-nbsp", "fr-euro"}
        THEN numResult[1] = ValueOf(w, f)
        ELSE IF k = "fr-dot" /\ Groups(w) > 1 THEN numResult[1] = NullNum
        ELSE numResult[1] = Reduced(DigitsValue(w), PowerOfTen(3 * Groups(w)))
C21_Witness ==
  /\ numArg = TextCell(<<"1", ",", "2", "3", "4", ".", "5", "6">>)
  /\ numResult = <<<<123456, 100>>>>

(* =============== C22: the columns of a booking-export row =============== *)
\* the columns bookingExportNormalizer rewrites: date, date and time, monetary and
\* count-like ones
RewrittenColumns ==
  Range(dateColumns) \cup Range(numericColumns) \cup Range(intColumns)
    \cup UNION {{datetimeColumns[i][1], datetimeColumns[i][2]} : i \in 1..Len(datetimeColumns)}
\* the header texts of the sheet, column by column
SheetHeaders == HeaderTexts(readRowValues(sheet.header, findLastColumn(sheet.header)))

\* C22: the row emitted for a non-blank data row of a booking-export sheet has a
\* field for every header column, and every column that is not a date, date and
\* time, monetary or count-like one holds exactly the cell read from the sheet
C22_NoColumnDropped ==
  (sheet.kind = "export" /\ lastOut # <<>>) =>
    \A i \in 1..Len(SheetHeaders) :
      /\ SheetHeaders[i] \in DOMAIN lastOut[1].row
      /\ SheetHeaders[i] \notin RewrittenColumns
           => lastOut[1].row[SheetHeaders[i]]
                = CellsRead(sheet.kind, sheet.header, lastRow)[i]


(* ---------------- C23: the competitor reference set ------------------- *)
IsCompetitorUpsert(req) == req.op = "upsert" /\ req.table = "hotel_competitor_set"

\* positions of the history of run r holding the competitor upsert
UpsertPositions(r) == {i \in DOMAIN issued[r] : IsCompetitorUpsert(issued[r][i])}

\* rows of collection k that run r handed to the store before position p
RowsSentBefore(r, k, p) ==
  UNION {(issued[r][i].lo + 1)..issued[r][i].hi :
           i \in {j \in 1..(p - 1) :
                    /\ issued[r][j].op = "insert"
                    /\ issued[r][j].table = TablesOf(config[r].template)[k]}}

\* the upsert is issued by booking_lowest runs only, once every row of the five
\* collections was sent and while no update of the run record was issued
UpsertInItsPlace ==
  \A r \in Runs : \A p \in UpsertPositions(r) :
    /\ config[r].template = "booking_lowest"
    /\ Len(result[r].sizes) = 5
    /\ \A k \in 1..5 : RowsSentBefore(r, k, p) = 1..result[r].sizes[k]
    /\ \A i \in DOMAIN issued[r] : IsUpdate(issued[r][i]) => p < i

OneEntryPerLabel ==
  \A a, b \in competitorSet :
    /\ a.source = "booking"
    /\ SameKey(a, b) => a = b

\* C23 as stated: competitor labels are upserted only by booking-comparison
\* runs, after the five collections were batch-inserted and before the run
\* record is closed; the reference set holds at most one entry per
\* (hotel, 'booking', label), and an entry already there is left as it is
C23_KnownLabelLeftAsItIs ==
  /\ [](UpsertInItsPlace /\ OneEntryPerLabel)
  /\ [][competitorSet \subseteq competitorSet']_vars

\* C23 amended: as above, but an entry already there keeps its key and is
\* written again by the upsert, which renews its modification stamp
C23_KnownLabelKeepsItsEntry ==
  /\ [](UpsertInItsPlace /\ OneEntryPerLabel)
  /\ [][\A t \in competitorSet : \E u \in competitorSet' : SameKey(t, u)]_vars

\* two runs of one hotel have both had their labels accepted by the store
C23_Witness ==
  /\ \A r \in Runs :
       \E i \in DOMAIN answers[r] :
         IsCompetitorUpsert(answers[r][i].req) /\ answers[r][i].outcome = "ok"
  /\ \A r \in Runs : hotelFk[r] = hotelFk[1]
  /\ Cardinality(competitorSet) = Cardinality(Labels)
  /\ \E t \in competitorSet : t.updated_at = 2
  /\ \A r \in Runs : pc[r] = "returned"


(* ------------------- C24: rows of the market-rate sheet ----------------- *)
NamedColumns(header) == {i \in 1..Len(header) : ~IsBlank(header[i])}
ColumnsNamed(header, key) ==
  {i \in NamedColumns(header) : HeaderTexts(header)[i] = key}
\* the columns whose header is none of Jour, Date, Demande du marche
CompetitorColumns(header) ==
  {i \in NamedColumns(header) :
     HeaderTexts(header)[i] \notin {JourKey, DateKey, DemandeKey}}
\* the row is not one to skip: its date parses and no cell is an annotation
KeptRow(header, row, zone) ==
  /\ \E i \in ColumnsNamed(header, DateKey) : normalizeDate(row[i], zone) # NullDate
  /\ \A i \in NamedColumns(header) :
       ~(row[i].t = "text" /\ MatchesAnnotation(row[i].s))
RowsIn(out, c) == SelectSeq(out, LAMBDA p : p.coll = c)
MarketRowAsStated(header, row, out) ==
  /\ Len(RowsIn(out, "bookingTarifsMarket")) = 1
  /\ \A i \in ColumnsNamed(header, DemandeKey) :
       RowsIn(out, "bookingTarifsMarket")[1].row.Demande
         = NumOut(parseNumericZero(row[i]))
CompetitorRowsAsStated(header, row, rows) ==
  /\ Len(rows) = Cardinality(CompetitorColumns(header))
  /\ \A i \in CompetitorColumns(header) :
       \E j \in 1..Len(rows) :
         /\ rows[j].row.competitor_name = TextCell(ToText(header[i]))
         /\ rows[j].row.price = NumOut(parseNumericZero(row[i]))
         /\ rows[j].row.raw_price = RawText(row[i])

\* C24: every row of the market-rate sheet that is not skipped yields one market
\* row and one competitor row per header other than Jour, Date and Demande du
\* marche, which carries the header text as competitor_name, the parsed number
\* or 0 as price and the text of the cell as raw_price
C24_OneCompetitorRowPerHeader ==
  (sheet.kind = "tarifs" /\ rowIndex > 0 /\ KeptRow(sheet.header, lastRow, dateZone)) =>
    /\ MarketRowAsStated(sheet.header, lastRow, lastOut)
    /\ CompetitorRowsAsStated(sheet.header, lastRow,
                              RowsIn(lastOut, "bookingTarifsCompetitors"))


(* --------------------- C25: the competitor label list ------------------- *)
\* the labels the header row of the sheet holds in its non-fixed named columns
SheetLabels == {HeaderTexts(sheet.header)[i] : i \in CompetitorColumns(sheet.header)}
CompetitorSheets == {"tarifs", "vs. Hier", "vs. 3 jours", "vs. 7 jours"}
\* some row of the sheet was neither blank nor skipped
SomeRowKept == emitted["bookingTarifsMarket"] + emitted["bookingVsMarket"] > 0
NamesInList ==
  \A j \in 1..Len(lastOut) :
    lastOut[j].coll \in {"bookingTarifsCompetitors", "bookingVsCompetitors"}
      => lastOut[j].row.competitor_name.s \in competitors

\* C25 as stated: once the rows of a market-rate or versus sheet were scanned,
\* the label list holds a label if and only if it is the header of a non-fixed
\* column of the sheet, and every competitor_name emitted is in the list
C25_ListIsTheNonFixedColumns ==
  (sheet.kind \in CompetitorSheets /\ rowIndex > 0) =>
    competitors = SheetLabels /\ NamesInList

\* C25 amended: the list holds headers of non-fixed columns only, all of them as
\* soon as one row of the sheet was kept, none while every row was blank or
\* skipped; every competitor_name emitted is in the list
C25_ListIsTheColumnsOfKeptRows ==
  /\ NamesInList
  /\ sheet.kind \in CompetitorSheets =>
       competitors = (IF SomeRowKept THEN SheetLabels ELSE {})
  /\ sheet.kind \notin CompetitorSheets => competitors = {}

\* a versus sheet of which one row was kept after one was skipped
C25_Witness ==
  /\ sheet.kind = "vs. Hier"
  /\ rowIndex = 2 /\ rowsSkipped = 1
  /\ competitors = {<<"C", "o", "m", "p", " ", "A">>}


(* ------------------ C26: value and delta of the versus sheets ----------- *)
VersusSheets == {"vs. Hier", "vs. 3 jours", "vs. 7 jours"}
\* the named columns that a column with a blank header cell follows at once
PairedColumns(header) ==
  {i \in NamedColumns(header) : i + 1 <= Len(header) /\ IsBlank(header[i + 1])}
\* the emitted rows hold the cell of column i as value and that of i + 1 as delta
PairAsStated(header, row, out, i) ==
  IF HeaderTexts(header)[i] = DemandeKey
  THEN \E j \in 1..Len(out) :
         /\ out[j].coll = "bookingVsMarket"
         /\ out[j].row.Demande = NumOut(parseNumericZero(row[i]))
         /\ out[j].row.delta_demande = NumOut(parseNumericZero(row[i + 1]))
         /\ out[j].row.raw_delta_demande = RawText(row[i + 1])
  ELSE \E j \in 1..Len(out) :
         /\ out[j].coll = "bookingVsCompetitors"
         /\ out[j].row.competitor_name = TextCell(HeaderTexts(header)[i])
         /\ out[j].row.price = NumOut(parseNumericZero(row[i]))
         /\ out[j].row.delta = NumOut(parseNumericZero(row[i + 1]))
         /\ out[j].row.raw_delta = RawText(row[i + 1])
NoRowOfDeltaColumn(header, out) ==
  /\ Len(RowsIn(out, "bookingVsCompetitors")) = Cardinality(CompetitorColumns(header))
  /\ \A j \in 1..Len(out) :
       out[j].coll = "bookingVsCompetitors" =>
         /\ ~EndsWith(out[j].row.competitor_name.s, DeltaSuffix)
         /\ out[j].row.competitor_name.s # <<>>
CarriesHorizon(kind, out) == \A j \in 1..Len(out) : out[j].row.horizon = Horizon(kind)

\* C26: in a versus sheet the rows emitted for a data row take, for every named
\* column followed at once by a blank-headed column, the value from the named
\* column and the delta from the following one; a delta column yields no
\* competitor row of its own; every row carries the horizon of its sheet
C26_DeltaFromFollowingColumn ==
  (sheet.kind \in VersusSheets /\ rowIndex > 0 /\ lastOut # <<>>) =>
    /\ \A i \in PairedColumns(sheet.header) \ ColumnsNamed(sheet.header, DateKey) :
         PairAsStated(sheet.header, lastRow, lastOut, i)
    /\ NoRowOfDeltaColumn(sheet.header, lastOut)
    /\ CarriesHorizon(sheet.kind, lastOut)


(* -------------------- C27: the room type carried down ------------------- *)
\* the label of the nearest room-type cell, of those that are labels, at or above
\* the row, prev being the row scanned before it (none: the empty tuple)
NearestLabel(IsLabel(_), row, prev) ==
  IF IsLabel(row[1]) THEN Trim(ToText(row[1]))
  ELSE IF prev # <<>> /\ IsLabel(prev[1]) THEN Trim(ToText(prev[1]))
  ELSE <<>>
NotBlankCell(c) == ~IsBlank(c)
\* a cell the scan takes for a label: not blank, and not the number 0
TruthyLabel(c) == ~IsBlank(c) /\ ~(c.t = "num" /\ c.n = 0)
\* the rows emitted for a row carry the label; a row that is not blank all over
\* and has no label emits nothing and counts as one skipped row
FillDown(label, row, out, skipped) ==
  /\ \A j \in 1..Len(out) : out[j].row.type_de_chambre = TextCell(label)
  /\ (label = <<>> /\ ~isRowEmpty(row)) => (out = <<>> /\ skipped = 1)
\* the scan of the planning sheet moves on to its first or to its second row
ScansUpperRow == sheet.kind = "planning" /\ rowIndex <= 1 /\ rowIndex' = rowIndex + 1

\* C27 as stated: every row emitted by the planning scan has type_de_chambre equal
\* to the trimmed text of the nearest non-blank room-type cell at or above its
\* row; a non-blank row before any room-type label emits nothing and adds one to
\* rowsSkipped (followed on the first two rows of the scan, where the nearest
\* cell is the row's own or that of the row before)
C27_NearestNonBlankLabel ==
  [][ScansUpperRow =>
       FillDown(NearestLabel(NotBlankCell, lastRow', lastRow), lastRow', lastOut',
                rowsSkipped' - rowsSkipped)]_vars

\* C27 amended: the same, a room-type cell holding the number 0 counting as blank
C27_NearestTruthyLabel ==
  [][ScansUpperRow =>
       FillDown(NearestLabel(TruthyLabel, lastRow', lastRow), lastRow', lastOut',
                rowsSkipped' - rowsSkipped)]_vars

\* a second row without a room type has emitted a row under the label of the first
C27_Witness ==
  /\ sheet.kind = "planning" /\ rowIndex = 2
  /\ lastRow[1] = NullCell
  /\ lastOut # <<>>
  /\ lastOut[1].row.type_de_chambre \in {TextCell(<<"D", "o", "u", "b", "l", "e">>), TextCell(<<"S", "u", "i", "t", "e">>)}


(* ---------------- C28: where the planning scan sends a cell ------------- *)
\* the label holds the phrase, whatever the letter case and the runs of spaces
Mentions(cell, phrase) ==
  cell.t = "text" /\ Includes(CollapseSpaces(ToLowerCase(cell.s)), phrase)
IsAvailabilityRow(row) == Mentions(row[3], <<"l", "e", "f", "t", " ", "f", "o", "r", " ", "s", "a", "l", "e">>)
IsPriceRow(row) ==
  ~IsAvailabilityRow(row) /\ (Mentions(row[3], <<"p", "r", "i", "c", "e">>) \/ Mentions(row[3], <<"t", "a", "r", "i", "f">>))
\* the columns of the date span, counted from column 4, under a date that parses
DatedColumns(header, zone) ==
  {i \in 1..Len(header) : normalizeDate(header[i], zone) # NullDate}
\* the members of a set of numbers in ascending order
Ascending(S) ==
  CHOOSE f \in [1..Cardinality(S) -> S] : \A a, b \in 1..Cardinality(S) : a < b => f[a] < f[b]
IsMarkerX(cell) == ToLowerCase(Trim(ToText(cell))) = <<"x">>
AvailabilityOf(cell, date, roomType) ==
  Pushed("disponibilites",
    [hotel_fk |-> hotelRef, date |-> TextCell(date), type_de_chambre |-> TextCell(roomType),
     disponibilites |-> IF IsMarkerX(cell) THEN NumCell(0)
                        ELSE NumOut(parseNumeric(TextCell(Trim(ToText(cell))))),
     ferme_a_la_vente |-> IF IsMarkerX(cell) THEN TextCell(<<"x">>) ELSE NullCell])
\* every cell of the columns cols has yielded its row of the kind, and no other
\* row was emitted
RoutedTo(kind, cols, header, row, out, roomType, zone) ==
  /\ Len(out) = Cardinality(cols)
  /\ \A j \in 1..Len(out) :
       LET i == Ascending(cols)[j]
       IN IF kind = "availability"
          THEN out[j] = AvailabilityOf(row[3 + i], normalizeDate(header[i], zone), roomType)
          ELSE /\ out[j].coll = "planningTarifs"
               /\ out[j].row.date = TextCell(normalizeDate(header[i], zone))
               /\ out[j].row.type_de_chambre = TextCell(roomType)
               /\ out[j].row.tarif = NumOut(parseNumeric(row[3 + i]))

TimeOrNull(t) == t = <<>> \/ (Len(t) = 8 /\ IsTimeText(t))

\* C29: for every value for which normalizeDate returns a date D, splitDateTime
\* returns the date D, with a time written HH:mm:ss or null; for every value it
\* returns a pair of a date and a time
C29_SplitAgreesWithNormalize ==
  (dateResult # <<>> /\ splitResult # <<>>) =>
    /\ TimeOrNull(splitResult[1].time)
    /\ dateResult[1] # NullDate => splitResult[1].date = dateResult[1]


(* --------------- C30: a label and the cell of its column ---------------- *)
\* the rows that keep the whole data row under its header labels
RowsWithRawRow(out) ==
  SelectSeq(out, LAMBDA p : p.coll \in {"bookingApercu", "bookingTarifsMarket"})

\* C30: in the overview and market-rate sheets the value kept under a header
\* label is the cell of the data row in the column of that label, whatever the
\* layout of the header row, a blank cell between two named headers included
C30_ValueFromOwnColumn ==
  (sheet.kind \in {"apercu", "tarifs"} /\ rowIndex > 0) =>
    \A j \in 1..Len(RowsWithRawRow(lastOut)) :
      \A i \in NamedColumns(sheet.header) :
        RowsWithRawRow(lastOut)[j].row.raw_row[HeaderTexts(sheet.header)[i]] = lastRow[i]

====
